---- MODULE Spec2Model ----
(***************************************************************************)
(* Model of deforestation_assessment.js: the temporal compositing and      *)
(* persistent-change-detection script written against the Earth Engine     *)
(* client library.                                                         *)
(*                                                                         *)
(* An image is a record [year, mask, val]: the 'year' property (0 when the *)
(* property is not set), and for every pixel of the grid whether the pixel *)
(* is valid (mask) and its value (val, kept 0 where the pixel is masked).  *)
(* NDVI values are counted in steps of 1/40, so the thresholds 0.5 and 0.3 *)
(* of the script are the integers 20 and 12.                               *)
(***************************************************************************)
EXTENDS Integers, Sequences, FiniteSets

VARIABLES
    grid,                       \* the pixels of the area of interest at the Landsat scale
    archive,                    \* the sensors' scenes, as loadLandsat5/7/8 read them
    call,                       \* startYear and endYear of a call of createAnnualMedianComposite
    annualL5Composites,         \* line 80
    annualL7Composites,         \* line 81
    annualL8Composites,         \* line 82
    initialForestMask,          \* lines 97-101
    uniqueAnnualNdviComposites, \* lines 107-112
    deforestationList,          \* line 126 (yearlyDeforestation as a list)
    refinedDeforestationList,   \* lines 127-144
    annualAreasList,            \* line 167
    yearsList,                  \* line 168
    yearOfDeforestation,        \* lines 176-186
    pc,                         \* the statement the script is at
    mapLayers,                  \* the names of the layers given to Map.addLayer
    printed,                    \* the lines written by print and console
    yearsEval,                  \* the argument of the callback of yearsList.evaluate
    totalRefinedDeforestationArea,  \* line 235
    failure,                    \* the error that stopped the script, "none" without one
    annualIndicator,            \* part_001: the result of an annual compositing function
    operands,                   \* the two rasters given to a pixel-wise stage
    outcome,                    \* what the stage made of them
    classifications,            \* part_001 lines 379-381: rf_class, svm_class, cart_class
    hybridClassification,       \* part_001 line 388
    rawImage,                   \* part_003: an image as the provider delivers it
    maskedImage,                \* part_003: the image after its quality mask
    webConfig,                  \* main.js lines 69-72: the arguments of addHistoricalLayer
    olLayers,                   \* main.js: the layers of the OpenLayers map
    historicalMapLayer,         \* main.js line 3
    opacitySlider               \* main.js line 81: the slider element, its value

\* the variables of the end of the deforestation script (lines 188-247)
tailVars == <<mapLayers, printed, yearsEval, totalRefinedDeforestationArea, failure>>

\* the variables of the other programs of the repository
webVars == <<webConfig, olLayers, historicalMapLayer, opacitySlider>>
stressVars == <<annualIndicator, classifications, hybridClassification>>
maskVars == <<rawImage, maskedImage>>
stageVars == <<operands, outcome>>

\* what the statements of lines 80-186 of the deforestation script leave alone
otherVars == <<tailVars, webVars, stressVars, maskVars, stageVars>>

\* the variables of lines 80-186 of the deforestation script
scriptVars == <<grid, archive, call, annualL5Composites, annualL7Composites,
                annualL8Composites, initialForestMask, uniqueAnnualNdviComposites,
                deforestationList, refinedDeforestationList, annualAreasList,
                yearsList, yearOfDeforestation>>

vars == <<scriptVars, pc, otherVars>>

----------------------------------------------------------------------------
(* Bounds of the model *)

\* scenes in the sensors' archives, all sensors together
MaxScenes == 3
\* SpecEngine gives the engine composites for the years from the last but one
\* baseline year to EngineSpan years later
EngineSpan == 4

\* SpecCompositor gives the compositor an archive of at most MaxDatedScenes
\* scenes
MaxDatedScenes == 2

\* SpecArea gives the area stage at most MaxAreaRasters confirmed rasters on a
\* grid of AreaPixels pixels
AreaPixels == 2
MaxAreaRasters == 2

\* the raster grid: every operation of the script is pixel-wise, the area sum
\* apart; each specification fixes the grid in its initial states
Pixels == grid

\* NDVI values a scene pixel may hold: 0.2, 0.3, 0.5, 0.6
NdviLevels == {8, 12, 20, 24}

\* the years in which the archives may hold scenes
SceneYears == {1990, 1991, 1992, 2020}

\* SpecCompositor: the years and the days of the year (month, day) of the
\* scenes, and the years createAnnualMedianComposite is called with
DatedSceneYears == {1990, 1991}
SceneDays == {<<1, 1>>, <<7, 1>>, <<12, 31>>}
CallYears == 1989..1992

----------------------------------------------------------------------------
(* Program constants *)

LANDSAT_SCALE == 30
L5StartYear == 1984
L5EndYear == 2011
L7StartYear == 1999
L7EndYear == 2020
L8StartYear == 2013
L8EndYear == 2020
baselineStartYear == 1984
baselineEndYear == 1990
\* 0.5 and 0.3, in steps of 1/40
forestNdviThreshold == 20
deforestationNdviThreshold == 12
persistenceDuration == 2
SqMetersPerSqKm == 1000000

Sensors == {"L5", "L7", "L8"}

----------------------------------------------------------------------------
(* Earth Engine images and the pixel-wise operations the script uses *)

Image(y, m, v) == [year |-> y, mask |-> m, val |-> v]

\* ee.Image(c): the constant image, valid everywhere, no properties
ConstantImage(c) == Image(0, [p \in Pixels |-> TRUE], [p \in Pixels |-> c])

\* image.updateMask(m): a pixel stays valid where it was valid and m is valid
\* and non-zero
UpdateMask(img, m) ==
    LET keep == [p \in Pixels |-> img.mask[p] /\ m.mask[p] /\ m.val[p] # 0]
    IN  Image(img.year, keep, [p \in Pixels |-> IF keep[p] THEN img.val[p] ELSE 0])

\* image.mask(m): the mask is replaced by m; a pixel is valid where m is valid
\* and non-zero (a pixel that was masked has no value to show, 0 here)
SetMask(img, m) ==
    LET keep == [p \in Pixels |-> m.mask[p] /\ m.val[p] # 0]
    IN  Image(img.year, keep,
              [p \in Pixels |-> IF keep[p] /\ img.mask[p] THEN img.val[p] ELSE 0])

\* ee.Image(): "an empty transparent image", one band masked everywhere
EmptyImage == SetMask(ConstantImage(0), ConstantImage(0))

\* image.selfMask()
SelfMask(img) == UpdateMask(img, img)

\* image.clip(aoi): the pixels outside the area of interest are masked; every
\* pixel of the grid lies inside it
Clip(img) == UpdateMask(img, ConstantImage(1))

\* image.unmask(c): masked pixels get the value c; the properties are kept
Unmask(img, c) ==
    Image(img.year, [p \in Pixels |-> TRUE],
          [p \in Pixels |-> IF img.mask[p] THEN img.val[p] ELSE c])

\* image.set('year', y)
SetYear(img, y) == Image(y, img.mask, img.val)

\* image.lt(c), image.gt(c), image.eq(c): 1 or 0 on the valid pixels
Lt(img, c) ==
    Image(img.year, img.mask,
          [p \in Pixels |-> IF img.mask[p] /\ img.val[p] < c THEN 1 ELSE 0])

Gt(img, c) ==
    Image(img.year, img.mask,
          [p \in Pixels |-> IF img.mask[p] /\ img.val[p] > c THEN 1 ELSE 0])

Eq(img, c) ==
    Image(img.year, img.mask,
          [p \in Pixels |-> IF img.mask[p] /\ img.val[p] = c THEN 1 ELSE 0])

\* a.and(b): valid where both are valid, 1 where both are non-zero
And(a, b) ==
    LET both == [p \in Pixels |-> a.mask[p] /\ b.mask[p]]
    IN  Image(a.year, both,
              [p \in Pixels |->
                  IF both[p] /\ a.val[p] # 0 /\ b.val[p] # 0 THEN 1 ELSE 0])

\* image.multiply(n) for a number n
MultiplyBy(img, n) ==
    Image(img.year, img.mask, [p \in Pixels |-> img.val[p] * n])

----------------------------------------------------------------------------
(* Reducers over a list of images *)

RECURSIVE Insert(_, _)
Insert(x, s) ==
    IF s = <<>> THEN <<x>>
    ELSE IF x <= Head(s) THEN <<x>> \o s
    ELSE <<Head(s)>> \o Insert(x, Tail(s))

RECURSIVE Sorted(_)
Sorted(s) == IF s = <<>> THEN <<>> ELSE Insert(Head(s), Sorted(Tail(s)))

\* the valid values the images of the list hold at pixel p
ValidValues(imgs, p) ==
    LET valid == SelectSeq(imgs, LAMBDA img : img.mask[p])
    IN  [i \in 1..Len(valid) |-> valid[i].val[p]]

\* ee.Reducer.median() of a non-empty list of numbers: the middle value, the
\* mean of the two middle values when the count is even
MedianOf(vs) ==
    LET s == Sorted(vs)
        n == Len(s)
    IN  IF n % 2 = 1 THEN s[(n + 1) \div 2]
        ELSE (s[n \div 2] + s[n \div 2 + 1]) \div 2

\* collection.median(): per pixel the median of the valid values, masked where
\* no image is valid; the result carries no 'year'
Median(imgs) ==
    LET any == [p \in Pixels |-> ValidValues(imgs, p) # <<>>]
    IN  Image(0, any,
              [p \in Pixels |-> IF any[p] THEN MedianOf(ValidValues(imgs, p)) ELSE 0])

\* collection.sum(): per pixel the sum of the valid values, masked where no
\* image is valid; the result carries no 'year'
RECURSIVE SumOf(_)
SumOf(vs) == IF vs = <<>> THEN 0 ELSE Head(vs) + SumOf(Tail(vs))

Sum(imgs) ==
    LET any == [p \in Pixels |-> ValidValues(imgs, p) # <<>>]
    IN  Image(0, any,
              [p \in Pixels |-> IF any[p] THEN SumOf(ValidValues(imgs, p)) ELSE 0])

\* collection.mosaic(): the images are drawn in list order, so at each pixel the
\* LAST image that is valid there shows; masked where no image is valid
RECURSIVE Mosaic(_)
Mosaic(imgs) ==
    IF imgs = <<>> THEN EmptyImage
    ELSE LET top == imgs[Len(imgs)]
             below == Mosaic(SubSeq(imgs, 1, Len(imgs) - 1))
         IN  Image(0,
                   [p \in Pixels |-> top.mask[p] \/ below.mask[p]],
                   [p \in Pixels |-> IF top.mask[p] THEN top.val[p] ELSE below.val[p]])

\* collection.filter(ee.Filter.gte('year', lo)).filter(ee.Filter.lte('year', hi))
FilterYear(imgs, lo, hi) ==
    SelectSeq(imgs, LAMBDA img : lo <= img.year /\ img.year <= hi)

----------------------------------------------------------------------------
(* Dates and the sensors' collections *)

FromYMD(y, m, d) == [y |-> y, m |-> m, d |-> d]

DateLess(a, b) ==
    \/ a.y < b.y
    \/ a.y = b.y /\ a.m < b.m
    \/ a.y = b.y /\ a.m = b.m /\ a.d < b.d

\* collection.filterDate(start, end): start inclusive, end exclusive
FilterDate(scenes, start, end) ==
    {s \in scenes : ~DateLess(s.t, start) /\ DateLess(s.t, end)}

\* collection.filter(ee.Filter.calendarRange(year, year, 'year')): the scenes
\* acquired in the calendar year, its first and its last day included
CalendarRange(scenes, year) == {s \in scenes : s.t.y = year}

\* a list holding the elements of a finite set
RECURSIVE SetToSeq(_)
SetToSeq(S) ==
    IF S = {} THEN <<>>
    ELSE LET x == CHOOSE x \in S : TRUE IN <<x>> \o SetToSeq(S \ {x})

\* the NDVI band of the scenes of a collection, as a list of images
NdviImages(scenes) ==
    LET l == SetToSeq(scenes) IN [i \in 1..Len(l) |-> l[i].ndvi]

\* loadLandsat5/7/8: the sensor's scenes within the sensor's date range; the
\* cloud mask and the NDVI band are already applied to archive's scenes
LoadLandsat(sensor, startYear, endYear) ==
    FilterDate({s \in archive : s.sensor = sensor},
               FromYMD(startYear, 1, 1), FromYMD(endYear, 12, 31))

loadLandsat5 == LoadLandsat("L5", L5StartYear, L5EndYear)
loadLandsat7 == LoadLandsat("L7", L7StartYear, L7EndYear)
loadLandsat8 == LoadLandsat("L8", L8StartYear, L8EndYear)

----------------------------------------------------------------------------
(* The stages of the script *)

\* AnnualComposite with the 'year' left off the no-data image
AnnualCompositeUntagged(collection, year) ==
    LET yearlyCollection ==
            FilterDate(collection, FromYMD(year, 1, 1), FromYMD(year, 12, 31))
    IN  IF Cardinality(yearlyCollection) > 0
        THEN SetYear(Clip(Median(NdviImages(yearlyCollection))), year)
        ELSE SetMask(EmptyImage, ConstantImage(0))

\* the body of the loop of createAnnualMedianComposite for one year
AnnualComposite(collection, year) ==
    LET startDate == FromYMD(year, 1, 1)
        endDate == FromYMD(year, 12, 31)
        yearlyCollection == FilterDate(collection, startDate, endDate)
        count == Cardinality(yearlyCollection)
    IN  IF count > 0
        THEN SetYear(Clip(Median(NdviImages(yearlyCollection))), year)
        ELSE SetYear(SetMask(EmptyImage, ConstantImage(0)), year)

\* createAnnualMedianComposite returning a raster only for the years that have
\* observations
createAnnualMedianCompositeSkipEmpty(collection, startYear, endYear) ==
    SelectSeq([i \in 1..(IF endYear >= startYear THEN endYear - startYear + 1 ELSE 0) |->
                  AnnualComposite(collection, startYear + i - 1)],
              LAMBDA img : \E p \in Pixels : img.mask[p])

\* lines 61-76: for (var year = startYear; year <= endYear; year++)
createAnnualMedianComposite(collection, startYear, endYear) ==
    [i \in 1..(IF endYear >= startYear THEN endYear - startYear + 1 ELSE 0) |->
        AnnualComposite(collection, startYear + i - 1)]

\* part_001 lines 139-144: createAnnualMedianComposite(collection, year,
\* bandName, aoi) of the water stress script, which composes one year
createAnnualMedianCompositeOfYear(collection, year) ==
    LET yearlyCollection == CalendarRange(collection, year)
        medianImage == Median(NdviImages(yearlyCollection))
    IN  Clip(SetYear(medianImage, year))

\* createAnnualSumComposite with the median in place of the sum
createAnnualSumCompositeAsMedian(collection, year) ==
    createAnnualMedianCompositeOfYear(collection, year)

\* part_001 lines 146-151
createAnnualSumComposite(collection, year) ==
    LET yearlyCollection == CalendarRange(collection, year)
        sumImage == Sum(NdviImages(yearlyCollection))
    IN  Clip(SetYear(sumImage, year))

\* baselineNdviComposite without the filter on the baseline years
baselineNdviCompositeAllYears(l5Composites) ==
    IF Len(l5Composites) > 0
    THEN Median(l5Composites)
    ELSE SetMask(EmptyImage, ConstantImage(0))

\* lines 87-95
baselineNdviComposite(l5Composites) ==
    LET baselineAnnualNdvi == FilterYear(l5Composites, baselineStartYear, baselineEndYear)
    IN  IF Len(baselineAnnualNdvi) > 0
        THEN Median(baselineAnnualNdvi)
        ELSE SetMask(EmptyImage, ConstantImage(0))

\* ForestMask with gte in place of gt
ForestMaskGte(l5Composites) ==
    LET b == baselineNdviComposite(l5Composites)
    IN  SelfMask(Image(b.year, b.mask,
                       [p \in Pixels |->
                           IF b.mask[p] /\ b.val[p] >= forestNdviThreshold THEN 1 ELSE 0]))

\* lines 97-101
ForestMask(l5Composites) ==
    SelfMask(Gt(baselineNdviComposite(l5Composites), forestNdviThreshold))

\* collection.sort('year'): the images in increasing order of 'year', images of
\* the same year in the order they had
RECURSIVE ConcatByYear(_, _)
ConcatByYear(imgs, years) ==
    IF years = <<>> THEN <<>>
    ELSE FilterYear(imgs, Head(years), Head(years)) \o ConcatByYear(imgs, Tail(years))

SortByYear(imgs) ==
    ConcatByYear(imgs, Sorted(SetToSeq({imgs[i].year : i \in 1..Len(imgs)})))

\* line 105
allAnnualNdviComposites(l5, l7, l8) == SortByYear(l5 \o l7 \o l8)

\* line 106: the distinct years, in increasing order
distinctYears(all) == Sorted(SetToSeq({all[i].year : i \in 1..Len(all)}))

\* UniqueComposites with a pixel of a year kept only where every composite of
\* the year is valid
UniqueCompositesAllValid(l5, l7, l8) ==
    LET all == allAnnualNdviComposites(l5, l7, l8)
        years == distinctYears(all)
        merged(y) ==
            LET imgs == FilterYear(all, y, y)
                med == Median(imgs)
                keep == [p \in Pixels |-> \A k \in 1..Len(imgs) : imgs[k].mask[p]]
            IN  Image(y, keep, [p \in Pixels |-> IF keep[p] THEN med.val[p] ELSE 0])
    IN  [i \in 1..Len(years) |-> merged(years[i])]

\* UniqueComposites without the years whose merged composite has no valid pixel
UniqueCompositesSkipSentinels(l5, l7, l8) ==
    LET all == allAnnualNdviComposites(l5, l7, l8)
        years == distinctYears(all)
    IN  SelectSeq([i \in 1..Len(years) |->
                      SetYear(Median(FilterYear(all, years[i], years[i])), years[i])],
                  LAMBDA img : \E p \in Pixels : img.mask[p])

\* lines 107-112
UniqueComposites(l5, l7, l8) ==
    LET all == allAnnualNdviComposites(l5, l7, l8)
        years == distinctYears(all)
    IN  [i \in 1..Len(years) |->
            SetYear(Median(FilterYear(all, years[i], years[i])), years[i])]

\* detectDeforestation with lte in place of lt
detectDeforestationLte(currentNdviImage, initialForest, deforestThresh) ==
    SetYear(SelfMask(And(Eq(initialForest, 1),
                         Lt(currentNdviImage, deforestThresh + 1))),
            currentNdviImage.year)

\* detectDeforestation without the intersection with the baseline mask
detectDeforestationNoBaseline(currentNdviImage, initialForest, deforestThresh) ==
    SetYear(SelfMask(Lt(currentNdviImage, deforestThresh)), currentNdviImage.year)

\* detectDeforestation with the composite unmasked to 0 before the comparison
detectDeforestationUnmasked(currentNdviImage, initialForest, deforestThresh) ==
    SetYear(SelfMask(And(Eq(initialForest, 1),
                         Lt(Unmask(currentNdviImage, 0), deforestThresh))),
            currentNdviImage.year)

\* lines 114-119
detectDeforestation(currentNdviImage, initialForest, deforestThresh) ==
    LET year == currentNdviImage.year
        potentialDeforestation == Lt(currentNdviImage, deforestThresh)
        deforestation == And(Eq(initialForest, 1), potentialDeforestation)
    IN  SetYear(SelfMask(deforestation), year)

\* YearlyDeforestation with every year after the first compared against the
\* forest of the year before it in place of the baseline mask
YearlyDeforestationAgainstPreviousYear(unique, initialForest) ==
    LET analysisComposites ==
            SelectSeq(unique, LAMBDA img : img.year > baselineEndYear)
    IN  [i \in 1..Len(analysisComposites) |->
            detectDeforestation(analysisComposites[i],
                                IF i = 1 THEN initialForest
                                ELSE SelfMask(Gt(analysisComposites[i - 1],
                                                 forestNdviThreshold)),
                                deforestationNdviThreshold)]

\* lines 120-123, 126
YearlyDeforestation(unique, initialForest) ==
    LET analysisComposites ==
            SelectSeq(unique, LAMBDA img : img.year > baselineEndYear)
    IN  [i \in 1..Len(analysisComposites) |->
            detectDeforestation(analysisComposites[i], initialForest,
                                deforestationNdviThreshold)]

\* a.or(b)
Or(a, b) ==
    LET both == [p \in Pixels |-> a.mask[p] /\ b.mask[p]]
    IN  Image(a.year, both,
              [p \in Pixels |->
                  IF both[p] /\ (a.val[p] # 0 \/ b.val[p] # 0) THEN 1 ELSE 0])

\* PersistentPair with or in place of and
PersistentPairOr(list, i) ==
    LET img_Y == Unmask(list[i], 0)
        img_Y_plus_1 == Unmask(list[i + 1], 0)
    IN  SetYear(SelfMask(IF img_Y_plus_1.year - img_Y.year = 1
                         THEN Or(img_Y, img_Y_plus_1)
                         ELSE ConstantImage(0)),
                img_Y.year)

\* PersistentPair without the test on the year difference
PersistentPairBridging(list, i) ==
    LET img_Y == Unmask(list[i], 0)
        img_Y_plus_1 == Unmask(list[i + 1], 0)
    IN  SetYear(SelfMask(And(img_Y, img_Y_plus_1)), img_Y.year)

\* PersistentPair tagged with the later year of the pair
PersistentPairLaterYear(list, i) ==
    LET img_Y == Unmask(list[i], 0)
        img_Y_plus_1 == Unmask(list[i + 1], 0)
    IN  SetYear(SelfMask(IF img_Y_plus_1.year - img_Y.year = 1
                         THEN And(img_Y, img_Y_plus_1)
                         ELSE ConstantImage(0)),
                img_Y_plus_1.year)

\* PersistentPair without the second year: the candidate of year Y alone
PersistentPairSingleYear(list, i) ==
    LET img_Y == Unmask(list[i], 0)
    IN  SetYear(SelfMask(img_Y), img_Y.year)

\* lines 131-142: the body of the persistence loop for the pair (i, i + 1);
\* i counts from 1 here, from 0 in the script
PersistentPair(list, i) ==
    LET img_Y == Unmask(list[i], 0)
        img_Y_plus_1 == Unmask(list[i + 1], 0)
        year_Y == img_Y.year
        year_Y_plus_1 == img_Y_plus_1.year
        persistentDeforestation ==
            IF year_Y_plus_1 - year_Y = 1
            THEN And(img_Y, img_Y_plus_1)
            ELSE ConstantImage(0)
    IN  SetYear(SelfMask(persistentDeforestation), year_Y)

\* lines 127-144: for (i = 0; i < numDeforestationYears - (persistenceDuration - 1); i++)
PersistenceLoop(list) ==
    LET numDeforestationYears == Len(list)
        n == numDeforestationYears - (persistenceDuration - 1)
    IN  [i \in 1..(IF n > 0 THEN n ELSE 0) |-> PersistentPair(list, i)]

\* ee.Image.pixelArea(): the ground area of each pixel at the Landsat scale,
\* in square metres
pixelArea == Image(0, [p \in Pixels |-> TRUE],
                   [p \in Pixels |-> LANDSAT_SCALE * LANDSAT_SCALE])

\* a.multiply(b) for two images: valid where both are valid
Multiply(a, b) ==
    LET both == [p \in Pixels |-> a.mask[p] /\ b.mask[p]]
    IN  Image(a.year, both,
              [p \in Pixels |-> IF both[p] THEN a.val[p] * b.val[p] ELSE 0])

\* image.reduceRegion(ee.Reducer.sum(), aoi): the sum of the valid pixels
RECURSIVE SumValid(_, _)
SumValid(img, ps) ==
    IF ps = {} THEN 0
    ELSE LET p == CHOOSE p \in ps : TRUE
         IN  (IF img.mask[p] THEN img.val[p] ELSE 0) + SumValid(img, ps \ {p})

\* number.divide(d), kept as an exact fraction
Divide(n, d) == [num |-> n, den |-> d]

\* calculateDeforestedArea with the masked pixels counted as 1
calculateDeforestedAreaUnmasked(image) ==
    Divide(SumValid(Multiply(Unmask(image, 1), pixelArea), Pixels), SqMetersPerSqKm)

\* calculateDeforestedArea without the multiplication by the pixel area
calculateDeforestedAreaPixelCount(image) ==
    Divide(SumValid(image, Pixels), SqMetersPerSqKm)

\* lines 149-157: the value of the property 'deforested_area_sqkm'
calculateDeforestedArea(image) ==
    LET areaImage == Multiply(image, pixelArea)
        deforestedAreaSqMeters == SumValid(areaImage, Pixels)
    IN  Divide(deforestedAreaSqMeters, SqMetersPerSqKm)

\* every image of the script has exactly one band
BandCount(image) == 1

\* AnnualAreas with the records of zero area left out of the list
AnnualAreasNonZero(refined) ==
    SelectSeq([i \in 1..Len(refined) |-> calculateDeforestedArea(refined[i])],
              LAMBDA area : area.num # 0)

\* lines 158-167
AnnualAreas(refined) ==
    [i \in 1..Len(refined) |->
        IF BandCount(refined[i]) > 0
        THEN calculateDeforestedArea(refined[i])
        ELSE Divide(0, 1)]

\* line 168
Years(refined) == [i \in 1..Len(refined) |-> refined[i].year]

\* YearOfDeforestation without the selfMask of line 186
YearOfDeforestationNoSelfMask(refined) ==
    Mosaic([i \in 1..Len(refined) |->
               MultiplyBy(Unmask(refined[i], 0), refined[i].year)])

\* lines 176-186
YearOfDeforestation(refined) ==
    LET perYear == [i \in 1..Len(refined) |->
                        MultiplyBy(Unmask(refined[i], 0), refined[i].year)]
    IN  SelfMask(Mosaic(perYear))

----------------------------------------------------------------------------
(* The script, statement by statement *)

\* lines 80-82
GenerateAnnualComposites ==
    /\ pc = "composite"
    /\ annualL5Composites' = createAnnualMedianComposite(loadLandsat5, L5StartYear, L5EndYear)
    /\ annualL7Composites' = createAnnualMedianComposite(loadLandsat7, L7StartYear, L7EndYear)
    /\ annualL8Composites' = createAnnualMedianComposite(loadLandsat8, L8StartYear, L8EndYear)
    /\ pc' = "baseline"
    /\ UNCHANGED <<otherVars, grid, archive, call, initialForestMask, uniqueAnnualNdviComposites,
                   deforestationList, refinedDeforestationList, annualAreasList,
                   yearsList, yearOfDeforestation>>

\* lines 84-102
BuildInitialForestMask ==
    /\ pc = "baseline"
    /\ initialForestMask' = ForestMask(annualL5Composites)
    /\ pc' = "merge"
    /\ UNCHANGED <<otherVars, grid, archive, call, annualL5Composites, annualL7Composites, annualL8Composites,
                   uniqueAnnualNdviComposites, deforestationList,
                   refinedDeforestationList, annualAreasList, yearsList,
                   yearOfDeforestation>>

\* lines 105-112
MergeSensors ==
    /\ pc = "merge"
    /\ uniqueAnnualNdviComposites' =
           UniqueComposites(annualL5Composites, annualL7Composites, annualL8Composites)
    /\ pc' = "detect"
    /\ UNCHANGED <<otherVars, grid, archive, call, annualL5Composites, annualL7Composites, annualL8Composites,
                   initialForestMask, deforestationList, refinedDeforestationList,
                   annualAreasList, yearsList, yearOfDeforestation>>

\* DetectYearly taking the pixels it flags out of the baseline mask
DetectYearlyErodingMask ==
    /\ pc = "detect"
    /\ deforestationList' =
           YearlyDeforestation(uniqueAnnualNdviComposites, initialForestMask)
    /\ initialForestMask' =
           LET keep == [p \in Pixels |->
                           /\ initialForestMask.mask[p]
                           /\ \A j \in 1..Len(deforestationList') :
                                  ~deforestationList'[j].mask[p]]
           IN  Image(initialForestMask.year, keep,
                     [p \in Pixels |-> IF keep[p] THEN initialForestMask.val[p] ELSE 0])
    /\ pc' = "persist"
    /\ UNCHANGED <<otherVars, grid, archive, call, annualL5Composites, annualL7Composites,
                   annualL8Composites, uniqueAnnualNdviComposites,
                   refinedDeforestationList, annualAreasList, yearsList,
                   yearOfDeforestation>>

\* lines 113-126
DetectYearly ==
    /\ pc = "detect"
    /\ deforestationList' =
           YearlyDeforestation(uniqueAnnualNdviComposites, initialForestMask)
    /\ pc' = "persist"
    /\ UNCHANGED <<otherVars, grid, archive, call, annualL5Composites, annualL7Composites, annualL8Composites,
                   initialForestMask, uniqueAnnualNdviComposites,
                   refinedDeforestationList, annualAreasList, yearsList,
                   yearOfDeforestation>>

\* lines 127-146
RefinePersistence ==
    /\ pc = "persist"
    /\ refinedDeforestationList' = PersistenceLoop(deforestationList)
    /\ pc' = "area"
    /\ UNCHANGED <<otherVars, grid, archive, call, annualL5Composites, annualL7Composites, annualL8Composites,
                   initialForestMask, uniqueAnnualNdviComposites, deforestationList,
                   annualAreasList, yearsList, yearOfDeforestation>>

\* lines 148-168
QuantifyAreas ==
    /\ pc = "area"
    /\ annualAreasList' = AnnualAreas(refinedDeforestationList)
    /\ yearsList' = Years(refinedDeforestationList)
    /\ pc' = "resolve"
    /\ UNCHANGED <<otherVars, grid, archive, call, annualL5Composites, annualL7Composites, annualL8Composites,
                   initialForestMask, uniqueAnnualNdviComposites, deforestationList,
                   refinedDeforestationList, yearOfDeforestation>>

\* lines 174-186
ResolveFirstOccurrence ==
    /\ pc = "resolve"
    /\ yearOfDeforestation' = YearOfDeforestation(refinedDeforestationList)
    /\ pc' = "done"
    /\ UNCHANGED <<otherVars, grid, archive, call, annualL5Composites, annualL7Composites, annualL8Composites,
                   initialForestMask, uniqueAnnualNdviComposites, deforestationList,
                   refinedDeforestationList, annualAreasList, yearsList>>

----------------------------------------------------------------------------
(* Inputs *)

\* the NDVI band of a scene: every pixel masked or holding one of NdviLevels
SceneImages ==
    {Image(0, mv[1], mv[2]) :
        mv \in {x \in [Pixels -> BOOLEAN] \X [Pixels -> NdviLevels \cup {0}] :
                   \A p \in Pixels : x[1][p] <=> (x[2][p] # 0)}}

\* the years of SceneYears in which a sensor's archive holds scenes
SensorYears(sensor) ==
    IF sensor = "L5" THEN SceneYears \cap (L5StartYear..L5EndYear)
    ELSE IF sensor = "L7" THEN SceneYears \cap (L7StartYear..L7EndYear)
    ELSE SceneYears \cap (L8StartYear..L8EndYear)

\* a scene: its sensor, its acquisition date (mid-year) and its NDVI band
AllScenes ==
    UNION {{[sensor |-> sn, t |-> FromYMD(y, 7, 1), ndvi |-> img] :
                y \in SensorYears(sn), img \in SceneImages} : sn \in Sensors}

\* the scenes an archive may hold, numbered
SceneList == SetToSeq(AllScenes)

\* the archives of at most MaxScenes scenes: slot i holds scene number
\* slots[i], or nothing when slots[i] = 0
Archives ==
    {{scenes[slots[i]] : i \in {k \in 1..MaxScenes : slots[k] > 0}} :
        scenes \in {SceneList},
        slots \in {f \in [1..MaxScenes -> 0..Cardinality(AllScenes)] :
                      \A i \in 1..(MaxScenes - 1) : f[i] <= f[i + 1]}}

\* the years for which the engine is given composites in SpecEngine
EngineYears == (baselineEndYear - 1)..(baselineEndYear - 1 + EngineSpan)

\* the list of composites tagged with the years Y, in increasing order, the
\* composite of year y being f[y]
CompositeList(Y, f) ==
    LET ys == Sorted(SetToSeq(Y))
    IN  [i \in 1..Len(ys) |-> SetYear(f[ys[i]], ys[i])]

\* no call of createAnnualMedianComposite is being looked at
NoCall == [startYear |-> 0, endYear |-> 0]

\* nothing is printed or drawn yet
TailIdle ==
    /\ mapLayers = <<>>
    /\ printed = <<>>
    /\ yearsEval = "pending"
    /\ totalRefinedDeforestationArea = "undefined"
    /\ failure = "none"

\* the web page is not loaded
WebIdle ==
    /\ webConfig = <<>>
    /\ olLayers = <<>>
    /\ historicalMapLayer = "undefined"
    /\ opacitySlider = "absent"

\* the water stress script has computed nothing
StressIdle ==
    /\ annualIndicator = <<>>
    /\ classifications = <<>>
    /\ hybridClassification = <<>>

MaskIdle ==
    /\ rawImage = <<>>
    /\ maskedImage = <<>>

StageIdle ==
    /\ operands = <<>>
    /\ outcome = <<>>

OthersIdle ==
    /\ TailIdle
    /\ WebIdle
    /\ StressIdle
    /\ MaskIdle
    /\ StageIdle

Blank ==
    /\ OthersIdle
    /\ call = NoCall
    /\ initialForestMask = EmptyImage
    /\ uniqueAnnualNdviComposites = <<>>
    /\ deforestationList = <<>>
    /\ refinedDeforestationList = <<>>
    /\ annualAreasList = <<>>
    /\ yearsList = <<>>
    /\ yearOfDeforestation = EmptyImage

\* the script, run on the sensors' archives
Init ==
    /\ grid = {1}
    /\ archive \in Archives
    /\ annualL5Composites = <<>>
    /\ annualL7Composites = <<>>
    /\ annualL8Composites = <<>>
    /\ Blank
    /\ pc = "composite"

Next ==
    \/ GenerateAnnualComposites
    \/ BuildInitialForestMask
    \/ MergeSensors
    \/ DetectYearly
    \/ RefinePersistence
    \/ QuantifyAreas
    \/ ResolveFirstOccurrence

Spec == Init /\ [][Next]_vars

\* the engine from the baseline builder on, run on any list of yearly
\* composites (years may be missing from the list)
InitEngine ==
    /\ grid = {1}
    /\ archive = {}
    /\ \E Y \in SUBSET EngineYears : \E f \in [Y -> SceneImages] :
           annualL5Composites = CompositeList(Y, f)
    /\ annualL7Composites = <<>>
    /\ annualL8Composites = <<>>
    /\ Blank
    /\ pc = "baseline"

NextEngine ==
    \/ BuildInitialForestMask
    \/ MergeSensors
    \/ DetectYearly
    \/ RefinePersistence
    \/ QuantifyAreas
    \/ ResolveFirstOccurrence

SpecEngine == InitEngine /\ [][NextEngine]_vars

\* a call of createAnnualMedianComposite on the Landsat 5 collection
CallCompositor ==
    /\ pc = "call"
    /\ \E startYear, endYear \in CallYears :
           /\ call' = [startYear |-> startYear, endYear |-> endYear]
           /\ annualL5Composites' =
                  createAnnualMedianComposite(loadLandsat5, startYear, endYear)
    /\ pc' = "returned"
    /\ UNCHANGED <<otherVars, grid, archive, annualL7Composites, annualL8Composites,
                   initialForestMask, uniqueAnnualNdviComposites, deforestationList,
                   refinedDeforestationList, annualAreasList, yearsList,
                   yearOfDeforestation>>

\* part_001 lines 168-199: a caller composes one year of an indicator with the
\* function of the reducer it wants. A year without scenes gives an image
\* without bands, and rename(bandName) of such an image either fails (ok is
\* FALSE) or gives an image without a valid pixel.
CallAnnualReducer ==
    /\ pc = "call"
    /\ \E reducer \in {"median", "sum"} : \E year \in CallYears :
           LET composite ==
                   IF reducer = "median"
                   THEN createAnnualMedianCompositeOfYear(archive, year)
                   ELSE createAnnualSumComposite(archive, year)
           IN  /\ call' = [reducer |-> reducer, year |-> year]
               /\ \E ok \in IF CalendarRange(archive, year) = {}
                             THEN BOOLEAN ELSE {TRUE} :
                      annualIndicator' = [ok |-> ok, image |-> composite]
    /\ pc' = "reduced"
    /\ UNCHANGED <<grid, archive, annualL5Composites, annualL7Composites,
                   annualL8Composites, initialForestMask, uniqueAnnualNdviComposites,
                   deforestationList, refinedDeforestationList, annualAreasList,
                   yearsList, yearOfDeforestation>>
    /\ UNCHANGED <<tailVars, webVars, classifications, hybridClassification,
                   maskVars, stageVars>>

\* Landsat 5 scenes acquired on the first day, in the middle and on the last
\* day of a year
DatedScenes ==
    {[sensor |-> "L5", t |-> FromYMD(y, d[1], d[2]), ndvi |-> img] :
        y \in DatedSceneYears, d \in SceneDays, img \in SceneImages}

\* the archives of at most MaxDatedScenes of these scenes
DatedArchives ==
    {{scenes[slots[i]] : i \in {k \in 1..MaxDatedScenes : slots[k] > 0}} :
        scenes \in {SetToSeq(DatedScenes)},
        slots \in {f \in [1..MaxDatedScenes -> 0..Cardinality(DatedScenes)] :
                      \A i \in 1..(MaxDatedScenes - 1) : f[i] <= f[i + 1]}}

\* the compositor alone, called with any range of years on an archive whose
\* scenes lie on the boundaries of the years
InitCompositor ==
    /\ grid = {1}
    /\ archive \in DatedArchives
    /\ annualL5Composites = <<>>
    /\ annualL7Composites = <<>>
    /\ annualL8Composites = <<>>
    /\ Blank
    /\ pc = "call"

NextCompositor ==
    \/ CallCompositor
    \/ CallAnnualReducer

SpecCompositor == InitCompositor /\ [][NextCompositor]_vars

\* the binary rasters of the grid: every pixel masked, 0 or 1
BinaryRasters ==
    {Image(0, mv[1], mv[2]) :
        mv \in {x \in [Pixels -> BOOLEAN] \X [Pixels -> {0, 1}] :
                   \A p \in Pixels : ~x[1][p] => x[2][p] = 0}}

\* the area stage and the stage after it, run on any list of binary rasters
\* tagged with the years that follow the baseline
InitArea ==
    /\ OthersIdle
    /\ grid = 1..AreaPixels
    /\ archive = {}
    /\ call = NoCall
    /\ annualL5Composites = <<>>
    /\ annualL7Composites = <<>>
    /\ annualL8Composites = <<>>
    /\ initialForestMask = EmptyImage
    /\ uniqueAnnualNdviComposites = <<>>
    /\ deforestationList = <<>>
    /\ \E n \in 0..MaxAreaRasters : \E f \in [1..n -> BinaryRasters] :
           refinedDeforestationList = [i \in 1..n |-> SetYear(f[i], baselineEndYear + i)]
    /\ annualAreasList = <<>>
    /\ yearsList = <<>>
    /\ yearOfDeforestation = EmptyImage
    /\ pc = "area"

NextArea ==
    \/ QuantifyAreas
    \/ ResolveFirstOccurrence

SpecArea == InitArea /\ [][NextArea]_vars

----------------------------------------------------------------------------
(* The pixel-wise stages, run on two rasters that carry their own grid *)

\* the projections, pixel sizes (metres) and footprints a raster may come with
Projections == {"EPSG:4326", "EPSG:32637"}
Resolutions == {LANDSAT_SCALE, 2 * LANDSAT_SCALE}
Footprints == {{1}, 1..AreaPixels}

\* the images with values of V on their valid pixels, valid only inside the
\* footprint F: Earth Engine shows a raster as masked outside its footprint
\* and resamples it to the grid of the computation
RastersOver(V, F) ==
    {Image(0, mv[1], mv[2]) :
        mv \in {x \in [Pixels -> BOOLEAN] \X [Pixels -> V \cup {0}] :
                   \A p \in Pixels : /\ ~x[1][p] => x[2][p] = 0
                                     /\ x[1][p] => p \in F /\ x[2][p] \in V}}

GriddedRasters(V) ==
    UNION {{[crs |-> c, scale |-> s, footprint |-> F, image |-> img] :
               c \in Projections, s \in Resolutions, img \in RastersOver(V, F)} :
           F \in Footprints}

\* ee.Image.pixelArea() as the area stage gets it: on the grid of the
\* reduceRegion call (scale 30), valid everywhere
PixelAreaRaster ==
    [crs |-> "EPSG:4326", scale |-> LANDSAT_SCALE, footprint |-> 1..AreaPixels,
     image |-> pixelArea]

\* the baseline mask and a composite, two candidates, a confirmed raster and
\* the pixel areas
StageOperands ==
    {[stage |-> "detect", a |-> a, b |-> b] :
        a \in GriddedRasters({1}), b \in GriddedRasters({8, 20})}
    \cup
    {[stage |-> "persistence", a |-> a, b |-> b] :
        a \in GriddedRasters({1}), b \in GriddedRasters({1})}
    \cup
    {[stage |-> "area", a |-> a, b |-> PixelAreaRaster] :
        a \in GriddedRasters({1})}

\* lines 114-119 on the baseline mask a and the composite b: no statement
\* looks at the grids of the two rasters
DetectStage ==
    /\ pc = "stage"
    /\ operands.stage = "detect"
    /\ outcome' = [error |-> "none",
                   result |-> detectDeforestation(SetYear(operands.b.image, baselineEndYear + 1),
                                                  operands.a.image,
                                                  deforestationNdviThreshold)]
    /\ pc' = "staged"
    /\ UNCHANGED <<scriptVars, tailVars, webVars, stressVars, maskVars, operands>>

\* lines 131-142 on the candidates a and b of two consecutive years
PersistenceStage ==
    /\ pc = "stage"
    /\ operands.stage = "persistence"
    /\ outcome' = [error |-> "none",
                   result |-> PersistentPair(<<SetYear(operands.a.image, baselineEndYear + 1),
                                               SetYear(operands.b.image, baselineEndYear + 2)>>, 1)]
    /\ pc' = "staged"
    /\ UNCHANGED <<scriptVars, tailVars, webVars, stressVars, maskVars, operands>>

\* line 150 on the confirmed raster a and the raster b of the pixel areas
AreaStage ==
    /\ pc = "stage"
    /\ operands.stage = "area"
    /\ outcome' = [error |-> "none",
                   result |-> Multiply(operands.a.image, operands.b.image)]
    /\ pc' = "staged"
    /\ UNCHANGED <<scriptVars, tailVars, webVars, stressVars, maskVars, operands>>

InitStage ==
    /\ grid = 1..AreaPixels
    /\ archive = {}
    /\ annualL5Composites = <<>>
    /\ annualL7Composites = <<>>
    /\ annualL8Composites = <<>>
    /\ call = NoCall
    /\ initialForestMask = EmptyImage
    /\ uniqueAnnualNdviComposites = <<>>
    /\ deforestationList = <<>>
    /\ refinedDeforestationList = <<>>
    /\ annualAreasList = <<>>
    /\ yearsList = <<>>
    /\ yearOfDeforestation = EmptyImage
    /\ TailIdle
    /\ WebIdle
    /\ StressIdle
    /\ MaskIdle
    /\ operands \in StageOperands
    /\ outcome = <<>>
    /\ pc = "stage"

NextStage ==
    \/ DetectStage
    \/ PersistenceStage
    \/ AreaStage

SpecStage == InitStage /\ [][NextStage]_vars

----------------------------------------------------------------------------
(* The web page: src/web_interface/main.js. Opacities are in hundredths. *)

\* line 36: the default of the parameter initialOpacity
DefaultOpacity == 75

\* line 72
initialOpacitySetting == 75

\* the opacities a page may be configured with
Opacities == {0, 50, DefaultOpacity, 100}

\* the values the slider element can hold (part_004: it shows an opacity)
SliderValues == {"0", "0.5", "0.75", "1"}

\* at most this many messages are kept on the console
MaxConsole == 3

\* a JavaScript value used as a condition: undefined, null and the empty
\* string are false, every other string is true
Truthy(x) == x \notin {"undefined", "null", ""}

\* a || b
OrElse(a, b) == IF Truthy(a) THEN a ELSE b

\* the number n assigned to the value of an input element: its decimal text
NumberToString(n) ==
    CASE n = 0 -> "0"
      [] n = 50 -> "0.5"
      [] n = 75 -> "0.75"
      [] n = 100 -> "1"

\* parseFloat(s) of the text of an input element
parseFloat(s) ==
    CASE s = "0" -> 0
      [] s = "0.5" -> 50
      [] s = "0.75" -> 75
      [] s = "1" -> 100

\* lines 10-12: new ol.layer.Tile({source: new ol.source.OSM()})
OsmLayer ==
    [kind |-> "Tile", title |-> "undefined", source |-> "OSM", LAYERS |-> "undefined",
     visible |-> TRUE, opacity |-> 100]

\* addHistoricalLayer without the test of its first two arguments
addHistoricalLayerUnguarded(layers, layerName, geoserverWMSUrl, layerTitle, initialOpacity) ==
    [layers |-> Append(layers,
                       [kind |-> "Image", title |-> OrElse(layerTitle, layerName),
                        source |-> geoserverWMSUrl, LAYERS |-> layerName,
                        visible |-> TRUE, opacity |-> initialOpacity]),
     returned |-> "newLayer",
     console |-> <<"log: Attempting to add WMS layer", "log: A 404 is expected">>]

\* lines 36-64: the layers of the map after the call, the value returned
\* (null, or the reference to the layer added last) and the console output
addHistoricalLayer(layers, layerName, geoserverWMSUrl, layerTitle, initialOpacity) ==
    IF ~Truthy(layerName) \/ ~Truthy(geoserverWMSUrl)
    THEN [layers |-> layers, returned |-> "null",
          console |-> <<"error: Layer name and GeoServer WMS URL are required">>]
    ELSE LET newLayer ==
                 [kind |-> "Image", title |-> OrElse(layerTitle, layerName),
                  source |-> geoserverWMSUrl, LAYERS |-> layerName,
                  visible |-> TRUE, opacity |-> initialOpacity]
         IN  [layers |-> Append(layers, newLayer), returned |-> "newLayer",
              console |-> <<"log: Attempting to add WMS layer", "log: A 404 is expected">>]

\* the settings of lines 69-75: the three texts, and the opacity, either
\* passed to addHistoricalLayer and set on the slider, or left to the default
\* of the function
WebConfigs ==
    {[exampleLayerName |-> n, exampleGeoserverWMSUrl |-> u, exampleLayerTitle |-> t,
      initialOpacitySetting |-> o, passOpacity |-> g] :
        n \in {"undefined", "", "historical_map_example"},
        u \in {"null", "", "http://localhost:8080/geoserver/your_workspace/wms"},
        t \in {"undefined", "My Example Historical Map"},
        o \in Opacities, g \in BOOLEAN}

\* lines 2-103: the handler of DOMContentLoaded. With the build of OpenLayers
\* the page is said to load (part_004: v9.1.0) ol.control.defaults is not a
\* function and line 18 throws before the map exists; with an older build the
\* handler runs to its end.
DOMContentLoaded ==
    /\ pc = "page"
    /\ \E callable \in BOOLEAN :
           IF ~callable
           THEN /\ failure' = "TypeError: ol.control.defaults is not a function"
                /\ UNCHANGED <<olLayers, historicalMapLayer, opacitySlider, printed>>
           ELSE LET r == addHistoricalLayer(<<OsmLayer>>,
                                            webConfig.exampleLayerName,
                                            webConfig.exampleGeoserverWMSUrl,
                                            webConfig.exampleLayerTitle,
                                            IF webConfig.passOpacity
                                            THEN webConfig.initialOpacitySetting
                                            ELSE DefaultOpacity)
                IN  /\ olLayers' = r.layers
                    /\ historicalMapLayer' = r.returned
                    /\ IF opacitySlider.present
                       THEN /\ opacitySlider' =
                                   [opacitySlider EXCEPT
                                       !.value = NumberToString(webConfig.initialOpacitySetting),
                                       !.listening = TRUE]
                            /\ printed' = r.console
                       ELSE /\ UNCHANGED opacitySlider
                            /\ printed' = Append(r.console,
                                                 "warn: Opacity slider element not found")
                    /\ UNCHANGED failure
    /\ pc' = "loaded"
    /\ UNCHANGED <<scriptVars, mapLayers, yearsEval, totalRefinedDeforestationArea,
                   webConfig, stressVars, maskVars, stageVars>>

\* the slider with every layer of the map set to the new opacity
SliderInputAllLayers ==
    /\ pc = "loaded"
    /\ opacitySlider.present
    /\ Len(printed) < MaxConsole
    /\ \E v \in SliderValues :
           /\ opacitySlider' = [opacitySlider EXCEPT !.value = v]
           /\ IF ~opacitySlider.listening
              THEN UNCHANGED <<olLayers, printed>>
              ELSE LET newOpacity == parseFloat(v)
                   IN  IF Truthy(historicalMapLayer)
                       THEN /\ olLayers' = [i \in 1..Len(olLayers) |->
                                               [olLayers[i] EXCEPT !.opacity = newOpacity]]
                            /\ UNCHANGED printed
                       ELSE /\ printed' = Append(printed, "warn: Historical layer not available")
                            /\ UNCHANGED olLayers
    /\ UNCHANGED <<scriptVars, pc, mapLayers, yearsEval, totalRefinedDeforestationArea,
                   failure, webConfig, historicalMapLayer, stressVars, maskVars, stageVars>>

\* the user moves the slider to v: the element takes the value, and the
\* listener of lines 88-96, when it was attached, runs
SliderInput ==
    /\ pc = "loaded"
    /\ opacitySlider.present
    /\ Len(printed) < MaxConsole
    /\ \E v \in SliderValues :
           /\ opacitySlider' = [opacitySlider EXCEPT !.value = v]
           /\ IF ~opacitySlider.listening
              THEN UNCHANGED <<olLayers, printed>>
              ELSE LET newOpacity == parseFloat(v)
                   IN  IF Truthy(historicalMapLayer)
                       THEN /\ olLayers' = [olLayers EXCEPT
                                               ![Len(olLayers)].opacity = newOpacity]
                            /\ UNCHANGED printed
                       ELSE /\ printed' = Append(printed, "warn: Historical layer not available")
                            /\ UNCHANGED olLayers
    /\ UNCHANGED <<scriptVars, pc, mapLayers, yearsEval, totalRefinedDeforestationArea,
                   failure, webConfig, historicalMapLayer, stressVars, maskVars, stageVars>>

\* the page before DOMContentLoaded: its settings, and the slider element of
\* index.html, present with some value or missing
InitWeb ==
    /\ grid = {1}
    /\ archive = {}
    /\ annualL5Composites = <<>>
    /\ annualL7Composites = <<>>
    /\ annualL8Composites = <<>>
    /\ call = NoCall
    /\ initialForestMask = EmptyImage
    /\ uniqueAnnualNdviComposites = <<>>
    /\ deforestationList = <<>>
    /\ refinedDeforestationList = <<>>
    /\ annualAreasList = <<>>
    /\ yearsList = <<>>
    /\ yearOfDeforestation = EmptyImage
    /\ TailIdle
    /\ StressIdle
    /\ MaskIdle
    /\ StageIdle
    /\ webConfig \in {c \in WebConfigs :
                         ~c.passOpacity => c.initialOpacitySetting = initialOpacitySetting}
    /\ olLayers = <<>>
    /\ historicalMapLayer = "undefined"
    /\ opacitySlider \in
           {[present |-> FALSE, value |-> "", listening |-> FALSE]}
           \cup {[present |-> TRUE, value |-> v, listening |-> FALSE] : v \in SliderValues}
    /\ pc = "page"

NextWeb ==
    \/ DOMContentLoaded
    \/ SliderInput

SpecWeb == InitWeb /\ [][NextWeb]_vars

----------------------------------------------------------------------------
(* The end of the deforestation script: lines 188-247 *)

\* line 211
yearToVerify == 2004

\* the longest list of candidate rasters the persistence filter is run on
MaxCandidates == 3

\* a line of the console, a layer of the map
Line(text, year, hundredths) == [text |-> text, year |-> year, hundredths |-> hundredths]
Layer(name, min, max, hundredths) ==
    [name |-> name, min |-> min, max |-> max, hundredths |-> hundredths]

\* list.reduce(ee.Reducer.min()), list.reduce(ee.Reducer.max()) fetched with
\* getInfo(): null (0 here) for the empty list
ListMin(list) ==
    IF list = <<>> THEN 0
    ELSE CHOOSE y \in {list[i] : i \in 1..Len(list)} :
             \A i \in 1..Len(list) : y <= list[i]

ListMax(list) ==
    IF list = <<>> THEN 0
    ELSE CHOOSE y \in {list[i] : i \in 1..Len(list)} :
             \A i \in 1..Len(list) : y >= list[i]

\* number.toFixed(2): the number rounded to hundredths, in hundredths
toFixed2(n) == (n.num * 100 + n.den \div 2) \div n.den

\* sum + value for two numbers kept as fractions
Plus(a, b) ==
    IF a.den = b.den THEN [num |-> a.num + b.num, den |-> a.den]
    ELSE IF a.den = 1 THEN [num |-> a.num * b.den + b.num, den |-> b.den]
    ELSE [num |-> a.num + b.num * a.den, den |-> a.den]

\* areasEval.reduce with a function that returns the value and drops the sum
RECURSIVE ReduceLast(_, _)
ReduceLast(areasEval, sum) ==
    IF areasEval = <<>> THEN sum
    ELSE ReduceLast(Tail(areasEval), Head(areasEval))

\* line 236: areasEval.reduce(function(sum, value) { return sum + value; }, 0)
RECURSIVE ReduceSum(_, _)
ReduceSum(areasEval, sum) ==
    IF areasEval = <<>> THEN sum
    ELSE ReduceSum(Tail(areasEval), Plus(sum, Head(areasEval)))

\* lines 189-208
VisualizeYearOfDeforestation ==
    /\ pc = "done"
    /\ LET minYear == ListMin(yearsList)
           maxYear == ListMax(yearsList)
           forest == Layer("Initial Forest Mask (Baseline)", 0, 0, 0)
       IN  IF minYear # 0 /\ maxYear # 0
           THEN /\ mapLayers' = mapLayers \o
                       <<Layer("Year of First Persistent Deforestation", minYear, maxYear, 0),
                         forest>>
                /\ UNCHANGED printed
           ELSE /\ printed' = Append(printed,
                       Line("Could not determine min/max years for Year of Deforestation visualization",
                            0, 0))
                /\ mapLayers' = mapLayers \o
                       <<Layer("Year of First Persistent Deforestation (auto-stretch)", 0, 0, 0),
                         forest>>
    /\ pc' = "verify"
    /\ UNCHANGED <<scriptVars, yearsEval, totalRefinedDeforestationArea, failure,
                   webVars, stressVars, maskVars, stageVars>>

\* lines 211-227 and 244-246: first() of the filtered collection is null when
\* no confirmed raster is tagged yearToVerify, the client object is not, and
\* getInfo() of line 214 then throws; the statements after it do not run
VerifyYear ==
    /\ pc = "verify"
    /\ LET hits == {i \in 1..Len(refinedDeforestationList) :
                       refinedDeforestationList[i].year = yearToVerify}
       IN  IF hits = {}
           THEN /\ failure' = "Element.get: Parameter 'object' is required."
                /\ pc' = "failed"
                /\ UNCHANGED <<mapLayers, printed>>
           ELSE LET first == CHOOSE i \in hits : \A j \in hits : i <= j
                    areaThisYear == annualAreasList[first]
                IN  /\ mapLayers' = mapLayers \o
                           <<Layer("Refined Deforestation (sqKm)", 0, 0, toFixed2(areaThisYear)),
                             Layer("Area of Interest", 0, 0, 0)>>
                    /\ printed' = printed \o
                           <<Line("--- Annual Refined Deforestation ---", 0, 0),
                             Line("--- Key Image Variables for Potential Export ---", 0, 0),
                             Line("Initial Forest Mask (Binary): initialForestMask", 0, 0),
                             Line("Year of First Persistent Deforestation (Year values): yearOfDeforestation", 0, 0)>>
                    /\ pc' = "evaluateYears"
                    /\ UNCHANGED failure
    /\ UNCHANGED <<scriptVars, yearsEval, totalRefinedDeforestationArea,
                   webVars, stressVars, maskVars, stageVars>>

\* lines 227-229: the callback of yearsList.evaluate
YearsEvaluated ==
    /\ pc = "evaluateYears"
    /\ \E errorYears \in BOOLEAN :
           IF errorYears
           THEN /\ printed' = Append(printed, Line("Error evaluating years", 0, 0))
                /\ pc' = "finished"
                /\ UNCHANGED yearsEval
           ELSE /\ yearsEval' = yearsList
                /\ pc' = "evaluateAreas"
                /\ UNCHANGED printed
    /\ UNCHANGED <<scriptVars, mapLayers, totalRefinedDeforestationArea, failure,
                   webVars, stressVars, maskVars, stageVars>>

\* lines 229-241: the callback of annualAreasList.evaluate
AreasEvaluated ==
    /\ pc = "evaluateAreas"
    /\ \E errorAreas \in BOOLEAN :
           IF errorAreas
           THEN /\ printed' = Append(printed, Line("Error evaluating areas", 0, 0))
                /\ UNCHANGED totalRefinedDeforestationArea
           ELSE LET areasEval == annualAreasList
                IN  \* an array, empty or not, is true as a condition
                    IF Len(yearsEval) = Len(areasEval)
                    THEN /\ totalRefinedDeforestationArea' = ReduceSum(areasEval, Divide(0, 1))
                         /\ printed' = printed
                                \o [i \in 1..Len(yearsEval) |->
                                       Line("Year: sq km", yearsEval[i], toFixed2(areasEval[i]))]
                                \o <<Line("--- Total Refined Deforestation Area (over analyzed period) ---", 0, 0),
                                     Line("sq km", 0, toFixed2(ReduceSum(areasEval, Divide(0, 1))))>>
                    ELSE /\ printed' = Append(printed,
                                Line("Years and areas lists do not match or are empty for printing.", 0, 0))
                         /\ UNCHANGED totalRefinedDeforestationArea
    /\ pc' = "finished"
    /\ UNCHANGED <<scriptVars, mapLayers, yearsEval, failure,
                   webVars, stressVars, maskVars, stageVars>>

\* the candidate rasters detectDeforestation returns: 1 where valid
CandidateRasters == {r \in BinaryRasters : \A p \in Pixels : r.mask[p] => r.val[p] = 1}

\* the script from the persistence filter to its last callback, run on any
\* list of candidates of consecutive years that starts at yearToVerify or
\* the year after it
InitReport ==
    /\ OthersIdle
    /\ grid = 1..AreaPixels
    /\ archive = {}
    /\ call = NoCall
    /\ annualL5Composites = <<>>
    /\ annualL7Composites = <<>>
    /\ annualL8Composites = <<>>
    /\ initialForestMask = ConstantImage(1)
    /\ uniqueAnnualNdviComposites = <<>>
    /\ \E n \in 0..MaxCandidates : \E start \in {yearToVerify, yearToVerify + 1} :
       \E f \in [1..n -> CandidateRasters] :
           deforestationList = [i \in 1..n |-> SetYear(f[i], start + i - 1)]
    /\ refinedDeforestationList = <<>>
    /\ annualAreasList = <<>>
    /\ yearsList = <<>>
    /\ yearOfDeforestation = EmptyImage
    /\ pc = "persist"

NextReport ==
    \/ RefinePersistence
    \/ QuantifyAreas
    \/ ResolveFirstOccurrence
    \/ VisualizeYearOfDeforestation
    \/ VerifyYear
    \/ YearsEvaluated
    \/ AreasEvaluated

SpecReport == InitReport /\ [][NextReport]_vars

----------------------------------------------------------------------------
(* The quality masks: deforestation_assessment.js lines 9-25, part_003 lines 13-46 *)

\* the largest pixel_qa value of the model: bits 0 to 5
MaxQa == 63

\* MOD13Q1 SummaryQA: fill, good, marginal, snow or ice, cloudy
SummaryQaValues == -1..3

\* image.lte(c): 1 or 0 on the valid pixels
Lte(img, c) ==
    Image(img.year, img.mask,
          [p \in Pixels |-> IF img.mask[p] /\ img.val[p] <= c THEN 1 ELSE 0])

\* the bitwise and of two non-negative integers
RECURSIVE BitAnd(_, _)
BitAnd(a, b) ==
    IF a = 0 \/ b = 0 THEN 0
    ELSE (a % 2) * (b % 2) + 2 * BitAnd(a \div 2, b \div 2)

\* image.bitwiseAnd(n) for a number n
BitwiseAnd(img, n) ==
    Image(img.year, img.mask,
          [p \in Pixels |-> IF img.mask[p] THEN BitAnd(img.val[p], n) ELSE 0])

\* 1 << k
ShiftLeft(k) == 2 ^ k

\* image.updateMask(mask) on an image of a data band and a quality band
UpdateMaskBands(image, mask) ==
    [provider |-> image.provider,
     data |-> UpdateMask(image.data, mask),
     qa |-> UpdateMask(image.qa, mask)]

\* maskL457Clouds with the test of the cloud bit alone
maskL457CloudsCloudBitOnly(image) ==
    LET qa == image.qa
        cloudsBitMask == ShiftLeft(5)
        mask == Eq(BitwiseAnd(qa, cloudsBitMask), 0)
    IN  UpdateMaskBands(image, mask)

\* deforestation_assessment.js lines 9-16, part_003 lines 13-20
maskL457Clouds(image) ==
    LET qa == image.qa
        cloudShadowBitMask == ShiftLeft(3)
        cloudsBitMask == ShiftLeft(5)
        mask == And(Eq(BitwiseAnd(qa, cloudShadowBitMask), 0),
                    Eq(BitwiseAnd(qa, cloudsBitMask), 0))
    IN  UpdateMaskBands(image, mask)

\* deforestation_assessment.js lines 18-25, part_003 lines 28-35
maskL8Clouds(image) ==
    LET qa == image.qa
        cloudShadowBitMask == ShiftLeft(3)
        cloudsBitMask == ShiftLeft(5)
        mask == And(Eq(BitwiseAnd(qa, cloudShadowBitMask), 0),
                    Eq(BitwiseAnd(qa, cloudsBitMask), 0))
    IN  UpdateMaskBands(image, mask)

\* part_003 lines 42-46
maskModisQuality(modisImage) ==
    LET summaryQA == modisImage.qa
        mask == Lte(summaryQA, 1)
    IN  UpdateMaskBands(modisImage, mask)

\* the images with values of V on their valid pixels
BandsOver(V) ==
    {Image(0, mv[1], mv[2]) :
        mv \in {x \in [Pixels -> BOOLEAN] \X [Pixels -> V \cup {0}] :
                   \A p \in Pixels : /\ ~x[1][p] => x[2][p] = 0
                                     /\ x[1][p] => x[2][p] \in V}}

\* a Landsat image with its pixel_qa band, a MODIS image with its SummaryQA band
RawImages ==
    {[provider |-> pr, data |-> d, qa |-> q] :
        pr \in {"L457", "L8"}, d \in BandsOver(NdviLevels), q \in BandsOver(0..MaxQa)}
    \cup
    {[provider |-> "MODIS", data |-> d, qa |-> q] :
        d \in BandsOver(NdviLevels), q \in BandsOver(SummaryQaValues)}

MaskL457Clouds ==
    /\ pc = "raw"
    /\ rawImage.provider = "L457"
    /\ maskedImage' = maskL457Clouds(rawImage)
    /\ pc' = "masked"
    /\ UNCHANGED <<scriptVars, tailVars, webVars, stressVars, rawImage, stageVars>>

MaskL8Clouds ==
    /\ pc = "raw"
    /\ rawImage.provider = "L8"
    /\ maskedImage' = maskL8Clouds(rawImage)
    /\ pc' = "masked"
    /\ UNCHANGED <<scriptVars, tailVars, webVars, stressVars, rawImage, stageVars>>

MaskModisQuality ==
    /\ pc = "raw"
    /\ rawImage.provider = "MODIS"
    /\ maskedImage' = maskModisQuality(rawImage)
    /\ pc' = "masked"
    /\ UNCHANGED <<scriptVars, tailVars, webVars, stressVars, rawImage, stageVars>>

InitMask ==
    /\ grid = {1}
    /\ archive = {}
    /\ annualL5Composites = <<>>
    /\ annualL7Composites = <<>>
    /\ annualL8Composites = <<>>
    /\ call = NoCall
    /\ initialForestMask = EmptyImage
    /\ uniqueAnnualNdviComposites = <<>>
    /\ deforestationList = <<>>
    /\ refinedDeforestationList = <<>>
    /\ annualAreasList = <<>>
    /\ yearsList = <<>>
    /\ yearOfDeforestation = EmptyImage
    /\ TailIdle
    /\ WebIdle
    /\ StressIdle
    /\ StageIdle
    /\ rawImage \in RawImages
    /\ maskedImage = <<>>
    /\ pc = "raw"

NextMask ==
    \/ MaskL457Clouds
    \/ MaskL8Clouds
    \/ MaskModisQuality

SpecMask == InitMask /\ [][NextMask]_vars

----------------------------------------------------------------------------
(* The hybrid classifier of the water stress script: part_001 lines 378-390 *)

\* line 264: No Stress, Mild Stress, Severe Stress
StressClasses == {0, 1, 2}

\* how often the class c occurs among the votes vs
Votes(vs, c) == Cardinality({i \in DOMAIN vs : vs[i] = c})

\* the reducer with the vote of the first classifier as its result
ModesFirstVote(vs) == {vs[1]}

\* ee.Reducer.mode() over the values vs: a value no other value occurs more
\* often than; which of several such values is returned is not specified
Modes(vs) ==
    {vs[i] : i \in {j \in DOMAIN vs : \A k \in DOMAIN vs : Votes(vs, vs[k]) <= Votes(vs, vs[j])}}

\* image.classify(model) for the three models: three rasters of classes,
\* valid where every band of the image is valid
ClassificationTriples ==
    {[rf_class |-> Image(0, m, [p \in Pixels |-> IF m[p] THEN c[p][1] ELSE 0]),
      svm_class |-> Image(0, m, [p \in Pixels |-> IF m[p] THEN c[p][2] ELSE 0]),
      cart_class |-> Image(0, m, [p \in Pixels |-> IF m[p] THEN c[p][3] ELSE 0])] :
        m \in [Pixels -> BOOLEAN],
        c \in [Pixels -> StressClasses \X StressClasses \X StressClasses]}

\* lines 384-388: the images combinedClassifications.reduce(ee.Reducer.mode())
\* may be
applyHybridModel(rfClassification, svmClassification, cartClassification) ==
    {Image(0, rfClassification.mask,
           [p \in Pixels |-> IF rfClassification.mask[p] THEN h[p] ELSE 0]) :
        h \in {f \in [Pixels -> StressClasses] :
                  \A p \in Pixels :
                      f[p] \in Modes(<<rfClassification.val[p],
                                       svmClassification.val[p],
                                       cartClassification.val[p]>>)}}

\* line 406
ApplyHybridModel ==
    /\ pc = "classified"
    /\ hybridClassification' \in applyHybridModel(classifications.rf_class,
                                                  classifications.svm_class,
                                                  classifications.cart_class)
    /\ pc' = "voted"
    /\ UNCHANGED <<scriptVars, tailVars, webVars, annualIndicator, classifications,
                   maskVars, stageVars>>

InitHybrid ==
    /\ grid = 1..AreaPixels
    /\ archive = {}
    /\ annualL5Composites = <<>>
    /\ annualL7Composites = <<>>
    /\ annualL8Composites = <<>>
    /\ call = NoCall
    /\ initialForestMask = EmptyImage
    /\ uniqueAnnualNdviComposites = <<>>
    /\ deforestationList = <<>>
    /\ refinedDeforestationList = <<>>
    /\ annualAreasList = <<>>
    /\ yearsList = <<>>
    /\ yearOfDeforestation = EmptyImage
    /\ TailIdle
    /\ WebIdle
    /\ MaskIdle
    /\ StageIdle
    /\ annualIndicator = <<>>
    /\ classifications \in ClassificationTriples
    /\ hybridClassification = <<>>
    /\ pc = "classified"

NextHybrid == ApplyHybridModel

SpecHybrid == InitHybrid /\ [][NextHybrid]_vars

----------------------------------------------------------------------------
(* Properties *)

\* pixel p is valid and non-zero ("true") in the image
IsTrue(img, p) == img.mask[p] /\ img.val[p] # 0

NoTruePixel(img) == \A p \in Pixels : ~IsTrue(img, p)

AllInvalid(img) == \A p \in Pixels : ~img.mask[p]

Composited == pc \notin {"composite"}
Detected == pc \in {"persist", "area", "resolve", "done"}
Refined == pc \in {"area", "resolve", "done"}
Done == pc = "done"

\* the year tags of the candidate rasters, with the years next to them
TagYears ==
    UNION {{deforestationList[j].year - 1, deforestationList[j].year,
            deforestationList[j].year + 1} : j \in 1..Len(deforestationList)}

\* the candidate raster of calendar year y is true at p
CandidateAt(y, p) ==
    \E j \in 1..Len(deforestationList) :
        deforestationList[j].year = y /\ IsTrue(deforestationList[j], p)

\* a confirmed raster tagged y is true at p
ConfirmedAt(y, p) ==
    \E i \in 1..Len(refinedDeforestationList) :
        refinedDeforestationList[i].year = y /\ IsTrue(refinedDeforestationList[i], p)

ConfirmedYears(p) ==
    {refinedDeforestationList[i].year :
        i \in {k \in 1..Len(refinedDeforestationList) :
                  IsTrue(refinedDeforestationList[k], p)}}

MinYear(S) == CHOOSE y \in S : \A z \in S : y <= z

\* C1: at every pixel that is true in some confirmed raster, yearOfDeforestation
\* is valid and holds the least year tag of the confirmed rasters true there.
C1_FirstOccurrenceIsMinYear ==
    Done =>
        \A p \in Pixels :
            ConfirmedYears(p) # {} =>
                /\ yearOfDeforestation.mask[p]
                /\ yearOfDeforestation.val[p] = MinYear(ConfirmedYears(p))

\* C2: a pixel is confirmed in the raster tagged Y exactly when the candidates
\* of the calendar years Y and Y+1 are both true there; a candidate true in a
\* single year, false the year before and the year after, confirms nothing.
C2_PersistenceExactlyBothYears ==
    Refined =>
        /\ \A y \in TagYears : \A p \in Pixels :
               ConfirmedAt(y, p) <=> (CandidateAt(y, p) /\ CandidateAt(y + 1, p))
        /\ \A y \in TagYears : \A p \in Pixels :
               (CandidateAt(y, p) /\ ~CandidateAt(y - 1, p) /\ ~CandidateAt(y + 1, p))
                   => (~ConfirmedAt(y - 1, p) /\ ~ConfirmedAt(y, p))

\* a state after the filter with a pixel confirmed in one year and, in another
\* year, candidate but not confirmed
C2_Witness ==
    /\ Refined
    /\ \E p \in Pixels : \E y1, y2 \in TagYears :
           /\ ConfirmedAt(y1, p)
           /\ CandidateAt(y2, p) /\ ~CandidateAt(y2 + 1, p) /\ ~ConfirmedAt(y2, p)

\* the composites of the years after the baseline
AnalysisIndices ==
    {i \in 1..Len(uniqueAnnualNdviComposites) :
        uniqueAnnualNdviComposites[i].year > baselineEndYear}

\* C3: the candidate raster of a post-baseline composite carries the composite's
\* year and is true (value 1) exactly at the pixels where the baseline mask is
\* true and the composite is valid and strictly below the detection threshold;
\* every other pixel is masked.
C3_DetectExactly ==
    Detected =>
        /\ Len(deforestationList) = Cardinality(AnalysisIndices)
        /\ \A i \in AnalysisIndices :
               LET c == uniqueAnnualNdviComposites[i]
               IN  \E j \in 1..Len(deforestationList) :
                       LET d == deforestationList[j]
                       IN  /\ d.year = c.year
                           /\ \A p \in Pixels :
                                  /\ d.mask[p] <=>
                                         /\ IsTrue(initialForestMask, p)
                                         /\ c.mask[p]
                                         /\ c.val[p] < deforestationNdviThreshold
                                  /\ d.mask[p] => d.val[p] = 1

\* a state after detection where, on baseline forest, one composite below the
\* threshold gives a true candidate and one composite exactly at the threshold
\* gives none
C3_Witness ==
    /\ Detected
    /\ \E p \in Pixels : \E i, k \in AnalysisIndices :
           /\ IsTrue(initialForestMask, p)
           /\ uniqueAnnualNdviComposites[i].mask[p]
           /\ uniqueAnnualNdviComposites[i].val[p] < deforestationNdviThreshold
           /\ CandidateAt(uniqueAnnualNdviComposites[i].year, p)
           /\ uniqueAnnualNdviComposites[k].mask[p]
           /\ uniqueAnnualNdviComposites[k].val[p] = deforestationNdviThreshold
           /\ ~CandidateAt(uniqueAnnualNdviComposites[k].year, p)

\* the archive holds no scene of the sensor acquired in calendar year y
NoObservations(sensor, y) ==
    ~\E s \in archive : s.sensor = sensor /\ s.t.y = y

\* the list holds an image tagged y that is invalid at every pixel
HasSentinel(list, y) ==
    \E i \in 1..Len(list) : list[i].year = y /\ AllInvalid(list[i])

\* C4: for every year of a sensor's compositing range without observations the
\* composite list holds a raster tagged with that year and invalid everywhere.
C4_EmptyYearSentinel ==
    Composited =>
        /\ \A y \in L5StartYear..L5EndYear :
               NoObservations("L5", y) => HasSentinel(annualL5Composites, y)
        /\ \A y \in L7StartYear..L7EndYear :
               NoObservations("L7", y) => HasSentinel(annualL7Composites, y)
        /\ \A y \in L8StartYear..L8EndYear :
               NoObservations("L8", y) => HasSentinel(annualL8Composites, y)

\* a state after compositing where a sensor has a year with a valid composite
\* and the next year of its range has no observation
C4_Witness ==
    /\ Composited
    /\ \E i \in 1..Len(annualL5Composites) :
           /\ ~AllInvalid(annualL5Composites[i])
           /\ annualL5Composites[i].year + 1 <= L5EndYear
           /\ NoObservations("L5", annualL5Composites[i].year + 1)

\* C5: when the composite of an analysed year Y has no valid pixel, the
\* candidate of Y is false everywhere and no confirmed raster tagged Y-1 or Y has
\* a true pixel; and when no confirmed raster has a true pixel,
\* yearOfDeforestation has no valid pixel.
C5_MissingYearAllFalse ==
    Done =>
        /\ \A i \in AnalysisIndices :
               LET y == uniqueAnnualNdviComposites[i].year
               IN  AllInvalid(uniqueAnnualNdviComposites[i]) =>
                       \A p \in Pixels :
                           /\ ~CandidateAt(y, p)
                           /\ ~ConfirmedAt(y - 1, p)
                           /\ ~ConfirmedAt(y, p)
        /\ (\A p \in Pixels : ConfirmedYears(p) = {}) => AllInvalid(yearOfDeforestation)

\* the run has ended, an analysed year has an all-invalid composite and the
\* candidates of the year before and of the year after are true at some pixel
C5_Witness ==
    /\ Done
    /\ \E i \in AnalysisIndices : \E p \in Pixels :
           LET y == uniqueAnnualNdviComposites[i].year
           IN  /\ AllInvalid(uniqueAnnualNdviComposites[i])
               /\ CandidateAt(y - 1, p)
               /\ CandidateAt(y + 1, p)

\* C6: when two consecutive candidates are not exactly one year apart, the
\* confirmed raster of the pair, tagged with the earlier year, has no true
\* pixel.
C6_GapNeverBridged ==
    Refined =>
        \A i \in 1..(Len(deforestationList) - 1) :
            deforestationList[i + 1].year - deforestationList[i].year # 1 =>
                /\ refinedDeforestationList[i].year = deforestationList[i].year
                /\ NoTruePixel(refinedDeforestationList[i])

\* a state after the filter with two consecutive candidates two or more years
\* apart, both true at the same pixel
C6_Witness ==
    /\ Refined
    /\ \E i \in 1..(Len(deforestationList) - 1) : \E p \in Pixels :
           /\ deforestationList[i + 1].year - deforestationList[i].year > 1
           /\ IsTrue(deforestationList[i], p)
           /\ IsTrue(deforestationList[i + 1], p)

\* the composites of the baseline years that are valid at p
BaselineValid(p) ==
    {i \in 1..Len(annualL5Composites) :
        /\ baselineStartYear <= annualL5Composites[i].year
        /\ annualL5Composites[i].year <= baselineEndYear
        /\ annualL5Composites[i].mask[p]}

\* the k-th smallest of the baseline values at p
BaselineOrderStat(p, k) ==
    CHOOSE v \in {annualL5Composites[i].val[p] : i \in BaselineValid(p)} :
        /\ Cardinality({i \in BaselineValid(p) : annualL5Composites[i].val[p] < v}) < k
        /\ k <= Cardinality({i \in BaselineValid(p) : annualL5Composites[i].val[p] <= v})

\* twice the median of the baseline values at p
TwiceBaselineMedian(p) ==
    LET n == Cardinality(BaselineValid(p))
    IN  BaselineOrderStat(p, (n + 1) \div 2) + BaselineOrderStat(p, n \div 2 + 1)

BaselineBuilt == pc \notin {"composite", "baseline"}

\* C7: the baseline mask is true (value 1) at a pixel exactly when the median
\* of the baseline years' composites there is strictly above the baseline
\* threshold; every other pixel is masked.
C7_BaselineMaskIsMedianAboveThreshold ==
    BaselineBuilt =>
        \A p \in Pixels :
            /\ initialForestMask.mask[p] <=>
                   /\ BaselineValid(p) # {}
                   /\ TwiceBaselineMedian(p) > 2 * forestNdviThreshold
            /\ initialForestMask.mask[p] => initialForestMask.val[p] = 1

\* the mask is built, and at some pixel two baseline years with different
\* values, one of them not above the threshold, give a median above it
C7_Witness ==
    /\ BaselineBuilt
    /\ \E p \in Pixels :
           /\ Cardinality(BaselineValid(p)) = 2
           /\ \E i \in BaselineValid(p) :
                  annualL5Composites[i].val[p] <= forestNdviThreshold
           /\ IsTrue(initialForestMask, p)

\* no baseline year has a composite with a valid pixel
NoBaselineData == \A p \in Pixels : BaselineValid(p) = {}

\* C8: when the baseline years hold no valid data, the baseline mask is invalid
\* everywhere, every candidate and every confirmed raster has no true pixel,
\* every yearly area is zero and yearOfDeforestation has no valid pixel.
C8_EmptyBaselineNoChange ==
    (Done /\ NoBaselineData) =>
        /\ AllInvalid(initialForestMask)
        /\ \A j \in 1..Len(deforestationList) : NoTruePixel(deforestationList[j])
        /\ \A i \in 1..Len(refinedDeforestationList) :
               NoTruePixel(refinedDeforestationList[i])
        /\ Len(annualAreasList) = Len(refinedDeforestationList)
        /\ \A i \in 1..Len(annualAreasList) : annualAreasList[i].num = 0
        /\ AllInvalid(yearOfDeforestation)

\* the run has ended on a list without any composite of a baseline year, with
\* two consecutive analysed years below the detection threshold at some pixel
C8_Witness ==
    /\ Done
    /\ \A i \in 1..Len(annualL5Composites) :
           annualL5Composites[i].year > baselineEndYear
    /\ \E i, k \in AnalysisIndices : \E p \in Pixels :
           /\ uniqueAnnualNdviComposites[k].year = uniqueAnnualNdviComposites[i].year + 1
           /\ uniqueAnnualNdviComposites[i].mask[p]
           /\ uniqueAnnualNdviComposites[i].val[p] < deforestationNdviThreshold
           /\ uniqueAnnualNdviComposites[k].mask[p]
           /\ uniqueAnnualNdviComposites[k].val[p] < deforestationNdviThreshold

\* C9: where the baseline mask is not true, every candidate raster is not true.
C9_CandidatesWithinBaseline ==
    Detected =>
        \A p \in Pixels :
            ~IsTrue(initialForestMask, p) =>
                \A j \in 1..Len(deforestationList) : ~IsTrue(deforestationList[j], p)

\* a state after detection with a pixel outside the baseline mask whose
\* composite is valid and below the detection threshold in some analysed year
C9_Witness ==
    /\ Detected
    /\ \E p \in Pixels : \E i \in AnalysisIndices :
           /\ ~IsTrue(initialForestMask, p)
           /\ \E k \in BaselineValid(p) : TRUE
           /\ uniqueAnnualNdviComposites[i].mask[p]
           /\ uniqueAnnualNdviComposites[i].val[p] < deforestationNdviThreshold

\* C10: a pixel that is true in no confirmed raster is invalid in
\* yearOfDeforestation.
C10_NeverConfirmedInvalid ==
    Done =>
        \A p \in Pixels :
            ConfirmedYears(p) = {} => ~yearOfDeforestation.mask[p]

\* the run has ended with confirmed rasters none of which is true at a pixel
\* that was a candidate in some year
C10_Witness ==
    /\ Done
    /\ Len(refinedDeforestationList) > 0
    /\ \E p \in Pixels :
           /\ ConfirmedYears(p) = {}
           /\ \E y \in TagYears : CandidateAt(y, p)

\* the composite of analysed year i is valid and below the detection threshold
\* at p
BelowThreshold(i, p) ==
    /\ uniqueAnnualNdviComposites[i].mask[p]
    /\ uniqueAnnualNdviComposites[i].val[p] < deforestationNdviThreshold

\* C11: every analysed year is compared against the same baseline mask: two
\* analysed years whose composites agree at a pixel have the same candidate
\* value there, whatever the candidates of the other years are; and a pixel
\* that was a candidate, then was not, is a candidate again in any later year
\* whose composite is below the threshold there.
C11_CandidateFromBaselineAndOwnYear ==
    Detected =>
        /\ \A i, k \in AnalysisIndices : \A p \in Pixels :
               (BelowThreshold(i, p) <=> BelowThreshold(k, p)) =>
                   (CandidateAt(uniqueAnnualNdviComposites[i].year, p) <=>
                    CandidateAt(uniqueAnnualNdviComposites[k].year, p))
        /\ \A i, k, l \in AnalysisIndices : \A p \in Pixels :
               (/\ i < k /\ k < l
                /\ CandidateAt(uniqueAnnualNdviComposites[i].year, p)
                /\ ~CandidateAt(uniqueAnnualNdviComposites[k].year, p)
                /\ BelowThreshold(l, p))
                   => CandidateAt(uniqueAnnualNdviComposites[l].year, p)

\* a state after detection with a pixel that is a candidate in one year, valid
\* and not a candidate the year after, and a candidate again the year after that
C11_Witness ==
    /\ Detected
    /\ \E i, k, l \in AnalysisIndices : \E p \in Pixels :
           /\ uniqueAnnualNdviComposites[k].year = uniqueAnnualNdviComposites[i].year + 1
           /\ uniqueAnnualNdviComposites[l].year = uniqueAnnualNdviComposites[k].year + 1
           /\ CandidateAt(uniqueAnnualNdviComposites[i].year, p)
           /\ uniqueAnnualNdviComposites[k].mask[p]
           /\ ~CandidateAt(uniqueAnnualNdviComposites[k].year, p)
           /\ CandidateAt(uniqueAnnualNdviComposites[l].year, p)

StrictlyIncreasingYears(list) ==
    \A i \in 1..(Len(list) - 1) : list[i].year < list[i + 1].year

\* C13: the candidates' year tags are strictly increasing, and for n >= 1
\* candidates there are n - 1 confirmed rasters (none for n = 0), the i-th
\* tagged with the year of the i-th candidate, the earlier of the pair
\* (i, i+1); the confirmed tags are strictly increasing and the year of the
\* last candidate is not among them.
C13_ConfirmedTagsAreEarlierYears ==
    Refined =>
        LET n == Len(deforestationList)
            m == Len(refinedDeforestationList)
        IN  /\ StrictlyIncreasingYears(deforestationList)
            /\ m = (IF n >= 1 THEN n - 1 ELSE 0)
            /\ \A i \in 1..m :
                   refinedDeforestationList[i].year = deforestationList[i].year
            /\ StrictlyIncreasingYears(refinedDeforestationList)
            /\ \A i \in 1..m :
                   refinedDeforestationList[i].year # deforestationList[n].year

\* a state after the filter with three candidates or more, the last of them
\* with a true pixel that is confirmed in the raster before it
C13_Witness ==
    /\ Refined
    /\ Len(deforestationList) >= 3
    /\ \E p \in Pixels :
           /\ IsTrue(deforestationList[Len(deforestationList)], p)
           /\ IsTrue(refinedDeforestationList[Len(refinedDeforestationList)], p)

\* the Landsat 5 scenes acquired in calendar year y, 1 January and 31 December
\* included, that are valid at p
CalendarYearObs(y, p) ==
    {s \in archive : s.sensor = "L5" /\ s.t.y = y /\ s.ndvi.mask[p]}

\* the k-th smallest of the values the scenes of S hold at p
ObsOrderStat(S, p, k) ==
    CHOOSE v \in {s.ndvi.val[p] : s \in S} :
        /\ Cardinality({s \in S : s.ndvi.val[p] < v}) < k
        /\ k <= Cardinality({s \in S : s.ndvi.val[p] <= v})

\* twice the median of the values the scenes of S hold at p
TwiceObsMedian(S, p) ==
    LET n == Cardinality(S)
    IN  ObsOrderStat(S, p, (n + 1) \div 2) + ObsOrderStat(S, p, n \div 2 + 1)

Returned == pc = "returned"

\* C14: the composite of year Y is the median over exactly the observations
\* acquired in calendar year Y, from 1 January through 31 December, both days
\* included: valid at a pixel where one of them is valid, with their median as
\* its value.
C14_CompositeOverCalendarYear ==
    Returned =>
        \A i \in 1..Len(annualL5Composites) : \A p \in Pixels :
            LET c == annualL5Composites[i]
                obs == CalendarYearObs(c.year, p)
            IN  /\ c.mask[p] <=> obs # {}
                /\ c.mask[p] => 2 * c.val[p] = TwiceObsMedian(obs, p)

\* C15: a call of createAnnualMedianComposite returns one raster per year of
\* startYear..endYear and nothing else: endYear - startYear + 1 rasters, the
\* i-th tagged startYear + i - 1, so every year of the range appears once and
\* the tags increase, whether or not the years have observations; no raster
\* when startYear is above endYear.
C15_OneRasterPerYear ==
    Returned =>
        LET n == Len(annualL5Composites)
        IN  /\ n = (IF call.startYear <= call.endYear
                    THEN call.endYear - call.startYear + 1 ELSE 0)
            /\ \A i \in 1..n : annualL5Composites[i].year = call.startYear + i - 1
            /\ \A y \in call.startYear..call.endYear :
                   Cardinality({i \in 1..n : annualL5Composites[i].year = y}) = 1
            /\ StrictlyIncreasingYears(annualL5Composites)

\* a call has returned for a range of three years or more, one of them with
\* observations and one without any
C15_Witness ==
    /\ Returned
    /\ call.endYear - call.startYear >= 2
    /\ \E y \in call.startYear..call.endYear :
           \E s \in archive : s.t.y = y /\ s.t.m = 7
    /\ \E y \in call.startYear..call.endYear : NoObservations("L5", y)
    /\ Len(annualL5Composites) = call.endYear - call.startYear + 1

Quantified == pc \in {"resolve", "done"}

\* the pixels where the image is true
TruePixels(img) == {p \in Pixels : IsTrue(img, p)}

\* C16: the area of a binary raster is the sum, over the pixels of the region,
\* of pixel value times pixel ground area, in square kilometres, invalid pixels
\* adding nothing: the ground area of the true pixels. A raster true everywhere
\* gives the area of the whole region, a raster true at one pixel gives that
\* pixel's area.
C16_AreaIsSumOverTruePixels ==
    Quantified =>
        /\ Len(annualAreasList) = Len(refinedDeforestationList)
        /\ \A i \in 1..Len(refinedDeforestationList) :
               LET img == refinedDeforestationList[i]
                   area == annualAreasList[i]
               IN  /\ area.den = SqMetersPerSqKm
                   /\ area.num = LANDSAT_SCALE * LANDSAT_SCALE * Cardinality(TruePixels(img))
                   /\ TruePixels(img) = Pixels =>
                          area.num = LANDSAT_SCALE * LANDSAT_SCALE * Cardinality(Pixels)
                   /\ Cardinality(TruePixels(img)) = 1 =>
                          area.num = LANDSAT_SCALE * LANDSAT_SCALE

\* the areas are computed for two rasters on a grid of more than one pixel: one
\* true everywhere, one true at a single pixel and invalid at another
C16_Witness ==
    /\ Quantified
    /\ Cardinality(Pixels) > 1
    /\ \E i, k \in 1..Len(refinedDeforestationList) :
           /\ TruePixels(refinedDeforestationList[i]) = Pixels
           /\ annualAreasList[i].num > LANDSAT_SCALE * LANDSAT_SCALE
           /\ Cardinality(TruePixels(refinedDeforestationList[k])) = 1
           /\ \E p \in Pixels : ~refinedDeforestationList[k].mask[p]
           /\ annualAreasList[k].num = LANDSAT_SCALE * LANDSAT_SCALE

\* C17: a confirmed raster without a true pixel, the raster of a year without
\* data or of a pair of candidates more than a year apart among them, has an
\* area record, and the record is exactly zero.
C17_EmptyRasterHasZeroArea ==
    Quantified =>
        /\ Len(annualAreasList) = Len(refinedDeforestationList)
        /\ \A i \in 1..Len(refinedDeforestationList) :
               NoTruePixel(refinedDeforestationList[i]) =>
                   annualAreasList[i] = [num |-> 0, den |-> SqMetersPerSqKm]

\* the areas are computed, and a pair of candidates two years apart, both true
\* at the same pixel, has an area record of zero
C17_Witness ==
    /\ Quantified
    /\ \E i \in 1..(Len(deforestationList) - 1) : \E p \in Pixels :
           /\ deforestationList[i + 1].year - deforestationList[i].year = 2
           /\ IsTrue(deforestationList[i], p)
           /\ IsTrue(deforestationList[i + 1], p)
           /\ AllInvalid(refinedDeforestationList[i])
           /\ annualAreasList[i].num = 0

\* C18: when the run has ended, the list of years, the list of areas and the
\* list of confirmed rasters have the same length, and position i of the two
\* lists holds the year tag and the area of the i-th confirmed raster; this
\* holds as well when no raster is confirmed or no raster has a true pixel.
C18_CompleteResultSet ==
    Done =>
        /\ Len(yearsList) = Len(refinedDeforestationList)
        /\ Len(annualAreasList) = Len(refinedDeforestationList)
        /\ \A i \in 1..Len(refinedDeforestationList) :
               /\ yearsList[i] = refinedDeforestationList[i].year
               /\ annualAreasList[i] =
                      [num |-> LANDSAT_SCALE * LANDSAT_SCALE *
                                   Cardinality(TruePixels(refinedDeforestationList[i])),
                       den |-> SqMetersPerSqKm]

\* the run has ended with two confirmed rasters, the first without a true
\* pixel and the second with one
C18_Witness ==
    /\ Done
    /\ Len(refinedDeforestationList) = 2
    /\ Len(yearsList) = 2
    /\ NoTruePixel(refinedDeforestationList[1])
    /\ annualAreasList[1].num = 0
    /\ ~NoTruePixel(refinedDeforestationList[2])
    /\ annualAreasList[2].num > 0

\* C19: the baseline mask changes only in the step that builds it, and the
\* steps after it (detector, persistence filter, area stage, first-occurrence
\* mosaic) leave the baseline mask, the composites and, once they exist, the
\* candidate rasters as they were.
C19_BaselineReadOnly ==
    [][/\ initialForestMask' # initialForestMask => pc = "baseline"
       /\ pc \in {"detect", "persist", "area", "resolve"} =>
              /\ initialForestMask' = initialForestMask
              /\ annualL5Composites' = annualL5Composites
              /\ annualL7Composites' = annualL7Composites
              /\ annualL8Composites' = annualL8Composites
              /\ uniqueAnnualNdviComposites' = uniqueAnnualNdviComposites
       /\ pc \in {"persist", "area", "resolve"} =>
              deforestationList' = deforestationList]_vars

\* the run has ended after every stage worked on a true pixel: the baseline
\* mask, a candidate and a confirmed raster are all true at some pixel
C19_Witness ==
    /\ Done
    /\ \E p \in Pixels :
           /\ IsTrue(initialForestMask, p)
           /\ \E j \in 1..Len(deforestationList) : IsTrue(deforestationList[j], p)
           /\ ConfirmedYears(p) # {}
           /\ annualAreasList # <<>>

Reduced == pc = "reduced"

\* the sum of the values the scenes of S hold at p
RECURSIVE ObsSum(_, _)
ObsSum(S, p) ==
    IF S = {} THEN 0
    ELSE LET s == CHOOSE s \in S : TRUE IN s.ndvi.val[p] + ObsSum(S \ {s}, p)

Staged == pc = "staged"

\* the two rasters of a stage do not lie on the same grid
Mismatch(a, b) ==
    \/ a.crs # b.crs
    \/ a.scale # b.scale
    \/ a.footprint # b.footprint

\* C22: when the two rasters of a pixel-wise stage differ in footprint,
\* pixel size or projection, the stage stops with an error that names the
\* stage and gives no result
C22_MismatchIsFatal ==
    (Staged /\ Mismatch(operands.a, operands.b)) =>
        /\ outcome.error = operands.stage
        /\ \A p \in Pixels : ~outcome.result.mask[p]

\* the handler of DOMContentLoaded has run, to its end or to an exception
Loaded == pc = "loaded"

\* the opacity addHistoricalLayer is called with
OpacityOfTheCall ==
    IF webConfig.passOpacity THEN webConfig.initialOpacitySetting ELSE DefaultOpacity

\* C23: addHistoricalLayer returns null and leaves the layers of the map as
\* they were when the layer name or the WMS URL is missing or empty; with
\* both given it adds exactly one layer, with the opacity of the call (0.75
\* when none is passed), and returns that layer
C23_NullOrOneLayer ==
    [][(pc = "page" /\ pc' = "loaded" /\ failure' = "none") =>
          IF Truthy(webConfig.exampleLayerName) /\ Truthy(webConfig.exampleGeoserverWMSUrl)
          THEN /\ historicalMapLayer' = "newLayer"
               /\ Len(olLayers') = 2
               /\ olLayers'[1] = OsmLayer
               /\ olLayers'[2].kind = "Image"
               /\ olLayers'[2].LAYERS = webConfig.exampleLayerName
               /\ olLayers'[2].opacity = OpacityOfTheCall
          ELSE /\ historicalMapLayer' = "null"
               /\ olLayers' = <<OsmLayer>>]_vars

\* a page loaded with a layer name and no URL: null is returned and the
\* basemap is the only layer
C23_Witness ==
    /\ Loaded
    /\ failure = "none"
    /\ Truthy(webConfig.exampleLayerName)
    /\ ~Truthy(webConfig.exampleGeoserverWMSUrl)
    /\ historicalMapLayer = "null"
    /\ olLayers = <<OsmLayer>>

\* C24: once the page is loaded the opacity of the historical layer is the
\* value the slider holds (the value of the last input event, or the initial
\* opacity before any event); the basemap is never changed; without a
\* historical layer the slider changes no layer
C24_SliderSetsHistoricalOpacityOnly ==
    (Loaded /\ failure = "none") =>
        /\ olLayers[1] = OsmLayer
        /\ (historicalMapLayer = "newLayer" /\ opacitySlider.present) =>
               /\ Len(olLayers) = 2
               /\ olLayers[2].opacity = parseFloat(opacitySlider.value)
        /\ (historicalMapLayer = "newLayer" /\ ~opacitySlider.present) =>
               /\ Len(olLayers) = 2
               /\ olLayers[2].opacity = OpacityOfTheCall
        /\ historicalMapLayer # "newLayer" => olLayers = <<OsmLayer>>

\* the slider was moved away from the initial opacity and the layer followed,
\* the basemap did not
C24_Witness ==
    /\ Loaded
    /\ failure = "none"
    /\ historicalMapLayer = "newLayer"
    /\ opacitySlider.present
    /\ parseFloat(opacitySlider.value) # OpacityOfTheCall
    /\ olLayers[2].opacity = parseFloat(opacitySlider.value)
    /\ olLayers[1].opacity = 100

\* the hybrid classification is computed
Voted == pc = "voted"

\* the classes the three classifiers give the pixel p
PredictedAt(p) ==
    <<classifications.rf_class.val[p], classifications.svm_class.val[p],
      classifications.cart_class.val[p]>>

\* C25: on every classified pixel the hybrid class is the class at least two
\* of the three classifiers agree on, when there is one, and in every case
\* one of the three predicted classes
C25_MajorityVote ==
    Voted =>
        \A p \in Pixels :
            /\ hybridClassification.mask[p] <=> classifications.rf_class.mask[p]
            /\ hybridClassification.mask[p] =>
                   /\ \E i \in 1..3 : hybridClassification.val[p] = PredictedAt(p)[i]
                   /\ \A c \in StressClasses :
                          Votes(PredictedAt(p), c) >= 2 => hybridClassification.val[p] = c

\* two classifiers outvote the first one at a pixel, and the three disagree
\* at another
C25_Witness ==
    /\ Voted
    /\ \E p \in Pixels :
           /\ hybridClassification.mask[p]
           /\ PredictedAt(p)[2] = PredictedAt(p)[3]
           /\ PredictedAt(p)[1] # PredictedAt(p)[2]
           /\ hybridClassification.val[p] = PredictedAt(p)[2]
    /\ \E p \in Pixels :
           /\ hybridClassification.mask[p]
           /\ \A c \in StressClasses : Votes(PredictedAt(p), c) = 1

\* the largest archive of SpecMerge
MaxMergeScenes == 2

\* the whole script on the archives of at most MaxMergeScenes scenes: a year
\* without observations next to a year with data takes one scene, a year two
\* sensors cover takes one scene of each, a gap between two years with data
\* takes two scenes
InitMerge == Init /\ Cardinality(archive) <= MaxMergeScenes

SpecMerge == InitMerge /\ [][Next]_vars

\* the sensors' sequences are merged
Merged == pc \in {"detect", "persist", "area", "resolve", "done"}

\* the year tags of the three sensor sequences
SensorYearTags ==
    {annualL5Composites[i].year : i \in 1..Len(annualL5Composites)}
    \cup {annualL7Composites[i].year : i \in 1..Len(annualL7Composites)}
    \cup {annualL8Composites[i].year : i \in 1..Len(annualL8Composites)}

\* each image of the list is tagged with the year after the one before it
ConsecutiveYears(list) ==
    \A i \in 1..(Len(list) - 1) : list[i + 1].year = list[i].year + 1

\* C26: the merged sequence holds one composite per year tag of the sensor
\* sequences, in increasing order and without a missing year between its
\* first and its last; the candidates are one year apart, so the persistence
\* filter never meets a pair of candidates that are not consecutive years
C26_MergedYearsContiguous ==
    /\ Merged =>
           \A tags \in {SensorYearTags} :
               /\ {uniqueAnnualNdviComposites[i].year :
                       i \in 1..Len(uniqueAnnualNdviComposites)} = tags
               /\ Len(uniqueAnnualNdviComposites) = Cardinality(tags)
               /\ ConsecutiveYears(uniqueAnnualNdviComposites)
    /\ Detected => ConsecutiveYears(deforestationList)

\* a run whose merged sequence holds a sentinel between two years with valid
\* composites, and whose persistence filter has run over the candidates
C26_Witness ==
    /\ Refined
    /\ Len(deforestationList) >= persistenceDuration
    /\ \E i, j, k \in 1..Len(uniqueAnnualNdviComposites) :
           /\ i < j /\ j < k
           /\ ~AllInvalid(uniqueAnnualNdviComposites[i])
           /\ AllInvalid(uniqueAnnualNdviComposites[j])
           /\ ~AllInvalid(uniqueAnnualNdviComposites[k])

\* the composites the sensors hold for the year y
SensorComposites(y) ==
    {[sensor |-> "L5", ndvi |-> annualL5Composites[i]] :
        i \in {j \in 1..Len(annualL5Composites) : annualL5Composites[j].year = y}}
    \cup {[sensor |-> "L7", ndvi |-> annualL7Composites[i]] :
        i \in {j \in 1..Len(annualL7Composites) : annualL7Composites[j].year = y}}
    \cup {[sensor |-> "L8", ndvi |-> annualL8Composites[i]] :
        i \in {j \in 1..Len(annualL8Composites) : annualL8Composites[j].year = y}}

\* those of them that are valid at p
SensorsValidAt(y, p) == {s \in SensorComposites(y) : s.ndvi.mask[p]}

\* wherever an image of the sensor's list is valid, every merged composite of
\* its year is valid too
KeptByMerge(list) ==
    \A j \in 1..Len(list) : \A p \in Pixels :
        list[j].mask[p] =>
            \A i \in 1..Len(uniqueAnnualNdviComposites) :
                uniqueAnnualNdviComposites[i].year = list[j].year
                    => uniqueAnnualNdviComposites[i].mask[p]

\* C27: the merged composite of a year is valid at a pixel exactly where the
\* composite of some sensor is valid, and its value there is the median of
\* the values of the sensors that are valid there
C27_MergeOverValidSensors ==
    Merged =>
        /\ KeptByMerge(annualL5Composites)
        /\ KeptByMerge(annualL7Composites)
        /\ KeptByMerge(annualL8Composites)
        /\ \A i \in 1..Len(uniqueAnnualNdviComposites) : \A p \in Pixels :
               uniqueAnnualNdviComposites[i].mask[p] =>
                   \A S \in {SensorsValidAt(uniqueAnnualNdviComposites[i].year, p)} :
                       /\ S # {}
                       /\ 2 * uniqueAnnualNdviComposites[i].val[p]
                              = TwiceObsMedian(S, p)

\* a year two sensors cover, one with a sentinel and one with a valid value
\* at a pixel, which the merged composite keeps
C27_Witness ==
    /\ Merged
    /\ \E i \in 1..Len(uniqueAnnualNdviComposites) : \E p \in Pixels :
           LET img == uniqueAnnualNdviComposites[i]
           IN  /\ Cardinality(SensorComposites(img.year)) = 2
               /\ \E s \in SensorComposites(img.year) : AllInvalid(s.ndvi)
               /\ \E s \in SensorComposites(img.year) :
                      s.ndvi.mask[p] /\ img.mask[p] /\ img.val[p] = s.ndvi.val[p]

\* the second callback has printed the total
TotalPrinted ==
    /\ pc = "finished"
    /\ Len(printed) > 0
    /\ printed[Len(printed)].text = "sq km"

\* a number of square kilometres, in square metres
InSqMeters(a) ==
    IF a.den = SqMetersPerSqKm THEN a.num ELSE a.num * (SqMetersPerSqKm \div a.den)

\* the pairs of a pixel and a confirmed raster that is true there
ConfirmedPairs ==
    {pi \in Pixels \X (1..Len(refinedDeforestationList)) :
        IsTrue(refinedDeforestationList[pi[2]], pi[1])}

\* the pixels that are true in some confirmed raster
ConfirmedPixels == {p \in Pixels : ConfirmedYears(p) # {}}

\* C28: the total the script prints is the sum of the area records of all
\* years: every pixel counts once for each year it is confirmed in, and the
\* total is the area of the distinct confirmed pixels only when no pixel is
\* confirmed in two years
C28_TotalCountsPixelPerYear ==
    TotalPrinted =>
        LET total == InSqMeters(totalRefinedDeforestationArea)
            pixel == LANDSAT_SCALE * LANDSAT_SCALE
        IN  /\ total = SumOf([i \in 1..Len(annualAreasList) |->
                                 InSqMeters(annualAreasList[i])])
            /\ total = pixel * Cardinality(ConfirmedPairs)
            /\ printed[Len(printed)].hundredths = toFixed2(totalRefinedDeforestationArea)
            /\ (total = pixel * Cardinality(ConfirmedPixels))
                   <=> \A p \in Pixels : Cardinality(ConfirmedYears(p)) <= 1

\* a pixel confirmed in two years is counted twice in the printed total
C28_Witness ==
    /\ TotalPrinted
    /\ \E p \in Pixels : Cardinality(ConfirmedYears(p)) = 2
    /\ InSqMeters(totalRefinedDeforestationArea)
           > LANDSAT_SCALE * LANDSAT_SCALE * Cardinality(ConfirmedPixels)

\* the indices (from 1) the loop of lines 127-144 reads in a list of n rasters
LoopReads(n) == UNION {{i, i + 1} : i \in 1..(n - (persistenceDuration - 1))}

\* fewer candidates than the persistence filter needs
TooFewCandidates == Len(deforestationList) < persistenceDuration

\* C29: the persistence loop reads only indices of the candidate list; with
\* fewer candidates than persistenceDuration it confirms nothing, and the
\* script still runs to its end, with an empty list of area records and a
\* first-occurrence raster without valid pixels
C29_ShortListCompletes ==
    /\ LoopReads(Len(deforestationList)) \subseteq 1..Len(deforestationList)
    /\ (TooFewCandidates /\ pc # "persist") => refinedDeforestationList = <<>>
    /\ (TooFewCandidates /\ pc \notin {"persist", "area"}) =>
           /\ annualAreasList = <<>>
           /\ yearsList = <<>>
    /\ (TooFewCandidates /\ pc \notin {"persist", "area", "resolve"}) =>
           AllInvalid(yearOfDeforestation)
    /\ TooFewCandidates => failure = "none"

\* the quality mask of the provider has been applied
Masked == pc = "masked"

\* bit k of the non-negative integer n
Bit(n, k) == (n \div (2 ^ k)) % 2

\* the quality band lets the pixel p through
GoodQuality(p) ==
    /\ rawImage.qa.mask[p]
    /\ IF rawImage.provider = "MODIS"
       THEN rawImage.qa.val[p] <= 1
       ELSE Bit(rawImage.qa.val[p], 3) = 0 /\ Bit(rawImage.qa.val[p], 5) = 0

\* C30: a pixel of a band is valid after the mask of its provider exactly
\* when it was valid before and its quality value passes (bits 3 and 5 of
\* pixel_qa both 0, SummaryQA at most 1), and a pixel that stays valid keeps
\* its value
C30_MaskKeepsGoodPixelsUnchanged ==
    Masked =>
        \A p \in Pixels :
            /\ maskedImage.data.mask[p] <=> (rawImage.data.mask[p] /\ GoodQuality(p))
            /\ maskedImage.qa.mask[p] <=> GoodQuality(p)
            /\ maskedImage.data.mask[p] => maskedImage.data.val[p] = rawImage.data.val[p]
            /\ maskedImage.qa.mask[p] => maskedImage.qa.val[p] = rawImage.qa.val[p]

\* a Landsat pixel with other bits of pixel_qa set and bits 3 and 5 clear
\* stays valid with its value
C30_Witness ==
    /\ Masked
    /\ rawImage.provider = "L457"
    /\ \E p \in Pixels :
           /\ rawImage.data.mask[p]
           /\ rawImage.qa.mask[p]
           /\ rawImage.qa.val[p] = 1 + 2 + 4 + 16
           /\ maskedImage.data.mask[p]
           /\ maskedImage.data.val[p] = rawImage.data.val[p]

====
